---- MODULE Spec2Model ----
\* Client-side cart synchronisation of the Kroger shopping UI
\* (src/static/js/cart.js): debounced quantity updates, retry with backoff,
\* modality toggling, item removal and cart re-fetch / re-render, running on
\* the browser's single-threaded event loop against the external cart API.
EXTENDS Integers, Sequences, FiniteSets, TLC

\* ------------------------------------------------------------------ bounds
NumProducts == 2
MaxQOps == 1
MaxMOps == 2
MaxROps == 1
MaxFetches == 1
MaxUserViews == 1
MaxBurstOps == 3
MaxViewsWide == 2
MaxAOps == 1
MaxCOps == 1
MaxFailureOps == 1
MaxLines == 2
MaxLOps == 1
MaxRaceOps == 2

\* ------------------------------------------------------- program constants
MaxRetries == 3
BaseDelay == 1000
MinQty == 1
MaxQty == 99
MaxAttempts == 60
PollDelay == 2000

ProductIds == 1..NumProducts
Modalities == {"PICKUP", "DELIVERY"}

VARIABLES serverCart, cartFilter, panelOpen, dom, cartItemCount, fetches,
          quantityUpdateTimeouts, qops, mops, rops, userViews,
          lastRender, clearModal, cops, aops, iops, lops, lastView, authState,
          poll

vars == <<serverCart, cartFilter, panelOpen, dom, cartItemCount, fetches,
          quantityUpdateTimeouts, qops, mops, rops, userViews,
          lastRender, clearModal, cops, aops, iops, lops, lastView, authState, poll>>

\* ------------------------------------------------------------ small helpers
Max(a, b) == IF a >= b THEN a ELSE b

Min(a, b) == IF a <= b THEN a ELSE b

RECURSIVE SumQty(_)
SumQty(s) == IF s = <<>> THEN 0 ELSE Head(s).qty + SumQty(Tail(s))

RECURSIVE SumSeq(_)
SumSeq(s) == IF s = <<>> THEN 0 ELSE Head(s) + SumSeq(Tail(s))

RECURSIVE FilterSeq(_, _)
FilterSeq(s, keep) ==
    IF s = <<>> THEN <<>>
    ELSE IF Head(s).pid \in keep THEN <<Head(s)>> \o FilterSeq(Tail(s), keep)
         ELSE FilterSeq(Tail(s), keep)

Pids(s) == {s[i].pid : i \in 1..Len(s)}

\* the digits of a product id as they appear in an onclick attribute
IdDigits(p) == <<p>>

\* attribute substring match of the CSS selector [onclick*="id"]
IsSubstring(a, b) ==
    \E k \in 0..(Len(b) - Len(a)) : \A j \in 1..Len(a) : b[k + j] = a[j]

OtherModality(m) == IF m = "PICKUP" THEN "DELIVERY" ELSE "PICKUP"

\* ------------------------------------------------------------ external API
\* POST /cart/update-quantity as applied by the cart service
ServerSetQuantity(cart, p, q) ==
    [i \in 1..Len(cart) |->
        IF cart[i].pid = p
        THEN [cart[i] EXCEPT !.qty = Max(MinQty, Min(MaxQty, q))]
        ELSE cart[i]]

\* POST /cart/update-modality as applied by the cart service
ServerSetModality(cart, p, m) ==
    [i \in 1..Len(cart) |->
        IF cart[i].pid = p THEN [cart[i] EXCEPT !.mod = m] ELSE cart[i]]

\* POST /cart/remove as applied by the cart service
ServerRemove(cart, p) == FilterSeq(cart, ProductIds \ {p})

\* ---------------------------------------------------------------- the view
NoFetch == [kind |-> "free"]

BlankDom == [kind |-> "blank", items |-> <<>>]

SpinnerDom == [kind |-> "spinner", items |-> <<>>]

ErrorDom == [kind |-> "error", items |-> <<>>]

\* one .cart-item as renderCart writes it
ItemEl(it) ==
    [pid |-> it.pid,
     qty |-> it.qty,
     dec |-> Max(1, it.qty - 1),
     inc |-> it.qty + 1,
     disabled |-> FALSE,
     badges |-> 0,
     img |-> [face |-> "photo", fn |-> "showProductDetails",
              pid |-> it.pid, arg |-> "-"],
     icon |-> [face |-> it.mod, fn |-> "toggleItemModality",
               pid |-> it.pid, arg |-> it.mod]]

StoredFilter(stored) == IF stored = "NONE" THEN "ALL" ELSE stored

MatchesFilter(it, f) == f = "ALL" \/ it.mod = f

\* a variant of the auto-reset that does not look at the cart's length
FilterResetsOnEmptyCart(data, stored) ==
    /\ StoredFilter(stored) # "ALL"
    /\ ~ \E i \in 1..Len(data) : MatchesFilter(data[i], StoredFilter(stored))

\* the auto-reset test of renderCart
FilterResets(data, stored) ==
    /\ StoredFilter(stored) # "ALL"
    /\ ~ \E i \in 1..Len(data) : MatchesFilter(data[i], StoredFilter(stored))
    /\ Len(data) > 0

CurrentFilter(data, stored) ==
    IF FilterResets(data, stored) THEN "ALL" ELSE StoredFilter(stored)

RenderFilter(data, stored) ==
    IF FilterResets(data, stored) THEN "ALL" ELSE stored

RenderCart(data, stored) ==
    LET cur == CurrentFilter(data, stored)
        keep == {data[i].pid : i \in {j \in 1..Len(data) : MatchesFilter(data[j], cur)}}
        shown == FilterSeq(data, keep)
    IN  IF Len(shown) = 0
        THEN [kind |-> IF cur = "ALL" THEN "empty" ELSE "noMatch", items |-> <<>>]
        ELSE [kind |-> "items", items |-> [i \in 1..Len(shown) |-> ItemEl(shown[i])]]

\* the filter step of renderCart that ignores the selected filter
FilteredItemsUnfiltered(data, cur) == data

\* the filter step of renderCart: the items the current filter keeps
FilteredItems(data, cur) ==
    FilterSeq(data, {data[i].pid : i \in {j \in 1..Len(data) : MatchesFilter(data[j], cur)}})

\* a variant that prices every line at its regular price
SalePriceRegularOnly(it) == it.regular

\* const salePrice = pricing.sale_price || regularPrice
SalePrice(it) == IF it.sale # 0 THEN it.sale ELSE it.regular

\* subtotal += salePrice * quantity
RECURSIVE Subtotal(_)
Subtotal(items) ==
    IF items = <<>> THEN 0
    ELSE SalePrice(Head(items)) * Head(items).qty + Subtotal(Tail(items))

\* if (pricing.on_sale) savings += (regularPrice - salePrice) * quantity
RECURSIVE Savings(_)
Savings(items) ==
    IF items = <<>> THEN 0
    ELSE (IF Head(items).onSale
          THEN (Head(items).regular - SalePrice(Head(items))) * Head(items).qty
          ELSE 0) + Savings(Tail(items))

\* the figures renderCart writes into the price summary for a filter
CartTotals(data, cur) ==
    LET items == FilteredItems(data, cur)
    IN  [itemCount |-> Len(items),
         subtotal |-> Subtotal(items),
         savings |-> Savings(items),
         total |-> Subtotal(items) - Savings(items)]

NoTotals == [itemCount |-> 0, subtotal |-> 0, savings |-> 0, total |-> 0]

NoRender ==
    [kind |-> "none", data |-> <<>>, stored |-> "NONE", filter |-> "ALL",
     saved |-> "NONE", shown |-> <<>>, totals |-> NoTotals]

\* what one call renderCart(data) read, stored and wrote
RenderRecord(data, stored) ==
    LET d == RenderCart(data, stored)
    IN  [kind |-> d.kind, data |-> data, stored |-> stored,
         filter |-> CurrentFilter(data, stored),
         saved |-> RenderFilter(data, stored),
         shown |-> [i \in 1..Len(d.items) |-> d.items[i].pid],
         totals |-> IF d.kind = "items"
                    THEN CartTotals(data, CurrentFilter(data, stored))
                    ELSE NoTotals]

\* updateQuantityDisplay(productId, newQuantity)
UpdateQuantityDisplay(d, p, q) ==
    [d EXCEPT !.items = [i \in 1..Len(d.items) |->
        IF d.items[i].pid = p
        THEN [d.items[i] EXCEPT !.qty = q, !.dec = Max(1, q - 1), !.inc = q + 1]
        ELSE d.items[i]]]

\* showItemLoading(productId, isLoading)
ShowItemLoading(d, p, isLoading) ==
    [d EXCEPT !.items = [i \in 1..Len(d.items) |->
        IF d.items[i].pid = p
        THEN [d.items[i] EXCEPT
                !.disabled = isLoading,
                !.badges = IF isLoading THEN @ + 1 ELSE Max(0, @ - 1)]
        ELSE d.items[i]]]

\* every replacement of cartResults.innerHTML detaches the elements that
\* running handlers still hold
DetachAll(rs) == [i \in 1..Len(rs) |-> [rs[i] EXCEPT !.attached = FALSE]]

\* ------------------------------------------------------------------ retry
\* a variant of the catch block that never rethrows
RetryCatchSwallows(attempt, maxRetries) == "wait"

\* catch block of retryWithBackoff
RetryCatch(attempt, maxRetries) ==
    IF attempt = maxRetries THEN "throw" ELSE "wait"

\* a variant of the delay that doubles once too often
RetryDelayDoubledEarly(attempt, baseDelay) == baseDelay * 2^attempt

\* delay before the next attempt: baseDelay * Math.pow(2, attempt - 1)
RetryDelay(attempt, baseDelay) == baseDelay * 2^(attempt - 1)

\* loop condition of retryWithBackoff
RetryLoop(attempt, maxRetries) ==
    IF attempt <= maxRetries THEN "call" ELSE "return"

\* ------------------------------------------------------------------- fetch
FreeSlots == {f \in DOMAIN fetches : fetches[f].kind = "free"}

FreeSlot == CHOOSE f \in FreeSlots : \A g \in FreeSlots : f <= g

NewFetch(kind, owner) ==
    [kind |-> kind, owner |-> owner, pc |-> "sent", res |-> "-", data |-> <<>>,
     latest |-> TRUE]

\* slot f takes a new GET /api/cart/view; every cart fetch issued before it
\* is no longer the most recent one
IssueView(fs, f, owner) ==
    [g \in DOMAIN fs |->
        IF g = f THEN NewFetch("view", owner)
        ELSE IF fs[g].kind = "view" THEN [fs[g] EXCEPT !.latest = FALSE]
             ELSE fs[g]]

\* authStatusCache is null, no logout has happened
NoAuthState ==
    [cache |-> [ok |-> FALSE, authenticated |-> FALSE, token_valid |-> FALSE],
     fresh |-> FALSE, loggedOut |-> FALSE]

\* the auth section before authenticateWithKroger is clicked: the button
\* enabled, no polling
NoPoll ==
    [pc |-> "idle", attempts |-> 0, disabled |-> FALSE, notice |-> "none",
     delay |-> 0, sawAuth |-> FALSE]

\* no cart fetch has completed yet
NoView ==
    [res |-> "none", data |-> <<>>, latest |-> TRUE,
     wantRes |-> "none", wantData |-> <<>>]

\* the record of the cart response handled last: its outcome and snapshot,
\* whether it answers the most recently issued fetch, and the outcome and
\* snapshot of the answer to the most recently issued fetch handled so far
ViewHandled(lv, fr) ==
    [res |-> fr.res, data |-> fr.data, latest |-> fr.latest,
     wantRes |-> IF fr.latest THEN fr.res ELSE lv.wantRes,
     wantData |-> IF fr.latest THEN fr.data ELSE lv.wantData]

\* viewCart() up to its first await: spinner, then GET /api/cart/view
StartViewCart(owner) ==
    /\ FreeSlots # {}
    /\ dom' = SpinnerDom
    /\ rops' = DetachAll(rops)
    /\ fetches' = IssueView(fetches, FreeSlot, owner)

\* pricing of a cart item in cents: regular_price, sale_price (0 when the
\* item carries none) and on_sale
Pricings ==
    { [regular |-> 500, sale |-> 0, onSale |-> FALSE],
      [regular |-> 500, sale |-> 400, onSale |-> TRUE],
      [regular |-> 300, sale |-> 200, onSale |-> FALSE] }

\* quantities of the lines of a drawn cart snapshot
LineQtys == {1, 2}

CatalogPricing == [regular |-> 500, sale |-> 400, onSale |-> TRUE]

CartItem(p, q, m, pr) ==
    [pid |-> p, qty |-> q, mod |-> m,
     regular |-> pr.regular, sale |-> pr.sale, onSale |-> pr.onSale]

InitCarts ==
    { << CartItem(1, 1, "PICKUP", CatalogPricing),
         CartItem(2, 99, "DELIVERY", CatalogPricing) >>,
      << CartItem(1, 98, "PICKUP", CatalogPricing) >> }

\* the items product p can contribute to a cart snapshot: none or one
ItemChoices(p) ==
    {<<>>} \cup {<<CartItem(p, q, m, pr)>> :
                     q \in LineQtys, m \in Modalities, pr \in Pricings}

\* the cart snapshots over the products 1..n, in product order
RECURSIVE CartsUpTo(_)
CartsUpTo(n) ==
    IF n = 0 THEN {<<>>}
    ELSE {c \o it : c \in CartsUpTo(n - 1), it \in ItemChoices(n)}

\* values of localStorage.getItem('cartModalityFilter') at page load
StoredFilters == {"NONE", "ALL", "PICKUP", "DELIVERY"}

InitWith(carts, filters) ==
    /\ serverCart \in carts
    /\ cartFilter \in filters
    /\ lastRender = NoRender
    /\ clearModal = FALSE
    /\ cops = <<>>
    /\ aops = <<>>
    /\ iops = <<>>
    /\ lops = <<>>
    /\ lastView = NoView
    /\ authState = NoAuthState
    /\ poll = NoPoll
    /\ panelOpen = FALSE
    /\ dom = BlankDom
    /\ cartItemCount = 0
    /\ fetches = [f \in 1..MaxFetches |-> NoFetch]
    /\ quantityUpdateTimeouts = [p \in ProductIds |-> 0]
    /\ qops = <<>>
    /\ mops = <<>>
    /\ rops = <<>>
    /\ userViews = 0

Init == InitWith(InitCarts, {"NONE"})

\* a page load with any cart at the service and any stored filter
InitRender == InitWith(CartsUpTo(NumProducts), StoredFilters)

\* the page with the cart panel opened once and a cart of several items
\* rendered in it
InitOpened ==
    /\ serverCart \in {c \in InitCarts : Len(c) > 1}
    /\ cartFilter = "NONE"
    /\ lastRender = RenderRecord(serverCart, "NONE")
    /\ clearModal = FALSE
    /\ cops = <<>>
    /\ aops = <<>>
    /\ iops = <<>>
    /\ lops = <<>>
    /\ lastView = NoView
    /\ authState = NoAuthState
    /\ poll = NoPoll
    /\ panelOpen = TRUE
    /\ dom = RenderCart(serverCart, "NONE")
    /\ cartItemCount = 0
    /\ fetches = [f \in 1..MaxFetches |-> NoFetch]
    /\ quantityUpdateTimeouts = [p \in ProductIds |-> 0]
    /\ qops = <<>>
    /\ mops = <<>>
    /\ rops = <<>>
    /\ userViews = 1

\* toggleCart()
ToggleCart ==
    /\ IF ~panelOpen
       THEN /\ userViews' = userViews + 1
            /\ panelOpen' = TRUE
            /\ StartViewCart(<<"user", 0>>)
       ELSE /\ panelOpen' = FALSE
            /\ UNCHANGED <<dom, rops, fetches, userViews>>
    /\ UNCHANGED <<serverCart, cartFilter, cartItemCount,
                   quantityUpdateTimeouts, qops, mops,
                   lastRender, clearModal, cops, aops,
                   iops, lops, lastView, authState, poll>>

\* filterCartByModality(filterValue), the onchange of the filter select
FilterCartByModality(f) ==
    /\ panelOpen
    /\ dom.kind \in {"items", "empty", "noMatch"}
    /\ userViews' = userViews + 1
    /\ cartFilter' = f
    /\ StartViewCart(<<"user", 0>>)
    /\ UNCHANGED <<serverCart, panelOpen, cartItemCount,
                   quantityUpdateTimeouts, qops, mops,
                   lastRender, clearModal, cops, aops,
                   iops, lops, lastView, authState, poll>>

\* the cart service answers GET /api/cart/view
FetchServer(f, res) ==
    /\ fetches[f].kind # "free"
    /\ fetches[f].pc = "sent"
    /\ res \in (IF fetches[f].kind = "view" THEN {"ok", "err"} ELSE {"ok", "err", "throw"})
    /\ fetches' = [fetches EXCEPT ![f] =
                      [@ EXCEPT !.pc = "replied", !.res = res,
                                !.data = IF res = "ok" THEN serverCart ELSE <<>>]]
    /\ UNCHANGED <<serverCart, cartFilter, panelOpen, dom, cartItemCount,
                   quantityUpdateTimeouts, qops, mops, rops, userViews,
                   lastRender, clearModal, cops, aops,
                   iops, lops, lastView, authState, poll>>

\* ------------------------------------------------- outcomes of a request
\* how a mutation request can fail: HTTP status not OK, success = false in
\* the body, or the fetch itself rejecting
FailureKinds == {"httpError", "notSuccess", "networkError"}

\* a variant of the retried closure without the two response checks
AttemptFailsOnRejectOnly(res) == res = "networkError"

\* the closure passed to retryWithBackoff throws when fetch rejects, when
\* !response.ok and when !result.success
AttemptFails(res) ==
    \/ res = "networkError"
    \/ res = "httpError"
    \/ res = "notSuccess"

\* a handler that awaits fetch and response.json() itself and then tests
\* result.success: the catch block takes a rejected fetch and an error
\* response without a JSON body, the else branch takes success = false
ResultFails(res) ==
    \/ res = "networkError"
    \/ res = "httpError"
    \/ res = "notSuccess"

\* --------------------------------------------- retryWithBackoff, stepwise
\* top of the for loop with the given attempt number
RetryNext(op, attempt) ==
    IF RetryLoop(attempt, MaxRetries) = "call"
    THEN [op EXCEPT !.pc = "sent", !.attempt = attempt, !.calls = @ + 1]
    ELSE [op EXCEPT !.pc = "returned", !.out = "returned", !.attempt = attempt]

\* a variant that loses the return in front of await fn()
RetryOnReplyNoReturn(op) ==
    IF ~AttemptFails(op.res)
    THEN RetryNext(op, op.attempt + 1)
    ELSE IF RetryCatch(op.attempt, MaxRetries) = "throw"
         THEN [op EXCEPT !.pc = "thrown", !.out = "thrown", !.err = op.attempt]
         ELSE [op EXCEPT !.pc = "backoff",
                         !.waits = Append(@, RetryDelay(op.attempt, BaseDelay))]

\* the awaited fn() settles: return its result, rethrow, or back off
RetryOnReply(op) ==
    IF ~AttemptFails(op.res)
    THEN [op EXCEPT !.pc = "returned", !.out = "returned", !.ret = op.attempt]
    ELSE IF RetryCatch(op.attempt, MaxRetries) = "throw"
         THEN [op EXCEPT !.pc = "thrown", !.out = "thrown", !.err = op.attempt]
         ELSE [op EXCEPT !.pc = "backoff",
                         !.waits = Append(@, RetryDelay(op.attempt, BaseDelay))]

\* the client sees the outcome of the attempt it is waiting for
Observe(op) ==
    [op EXCEPT !.okAt = IF op.res = "ok" /\ @ = 0 THEN op.attempt ELSE @,
               !.seen = Append(@, op.res)]

InRetry(op) == op.pc \in {"sent", "replied", "backoff"}

\* what the cart service can do with one mutation request:
\* <<applied, response seen by the client>>
Outcomes == {<<TRUE, "ok">>, <<TRUE, "networkError">>, <<FALSE, "networkError">>}

\* a request that succeeds, or fails without having been applied
PlainOutcomes == {<<TRUE, "ok">>, <<FALSE, "networkError">>}

\* a request that succeeds, or is refused in one of the three ways
FailureOutcomes == {<<TRUE, "ok">>} \cup {<<FALSE, k>> : k \in FailureKinds}

\* ------------------------------------------- debounced quantity updates
LastIntent(p) ==
    LET S == {i \in 1..Len(qops) : qops[i].pid = p}
    IN  IF S = {} THEN 0 ELSE CHOOSE i \in S : \A j \in S : j <= i

NewQOp(p, q, id) ==
    [pid |-> p, qty |-> q, pc |-> "armed", attempt |-> 0, calls |-> 0,
     ret |-> 0, err |-> 0, okAt |-> 0, out |-> "-", res |-> "-",
     toasts |-> <<>>, waits |-> <<>>, seen |-> <<>>,
     burst |-> IF LastIntent(p) # 0 /\ qops[LastIntent(p)].pc = "armed"
               THEN qops[LastIntent(p)].burst ELSE id,
     latest |-> TRUE, refetch |-> "none", reconciled |-> FALSE,
     shownQty |-> 0, snapQty |-> 0]

\* clearTimeout(id): only a timer that has not fired yet can be cancelled
ClearTimeout(ops, id) ==
    IF id # 0 /\ ops[id].pc = "armed"
    THEN [ops EXCEPT ![id].pc = "cancelled"]
    ELSE ops

\* debouncedQuantityUpdate(productId, newQuantity)
DebouncedQuantityUpdate(p, q) ==
    /\ dom' = UpdateQuantityDisplay(dom, p, q)
    /\ qops' = Append(ClearTimeout(qops, quantityUpdateTimeouts[p]),
                      NewQOp(p, q, Len(qops) + 1))
    /\ quantityUpdateTimeouts' =
           [quantityUpdateTimeouts EXCEPT ![p] = Len(qops) + 1]

\* click handler, data-action decrease-qty / increase-qty
ClickQty(i, dir) ==
    /\ panelOpen
    /\ i \in 1..Len(dom.items)
    /\ ~dom.items[i].disabled
    /\ DebouncedQuantityUpdate(dom.items[i].pid,
           IF dir = "dec" THEN dom.items[i].dec ELSE dom.items[i].inc)
    /\ UNCHANGED <<serverCart, cartFilter, panelOpen, cartItemCount,
                   fetches, mops, rops, userViews,
                   lastRender, clearModal, cops, aops,
                   iops, lops, lastView, authState, poll>>

\* a variant of the finally block that keeps the timer reference
DeleteTimeoutKept(p) ==
    quantityUpdateTimeouts

\* finally block of the timer callback: delete quantityUpdateTimeouts[productId]
DeleteTimeout(p) ==
    [quantityUpdateTimeouts EXCEPT ![p] = 0]

\* a variant of the catch block that re-fetches without a notice
QCatchSilent(op) ==
    [op EXCEPT !.pc = "refetch"]

\* a variant of the catch block that only reports the failure
QCatchToastOnly(op) ==
    [op EXCEPT !.pc = "finally", !.toasts = Append(@, "error")]

\* catch block of the timer callback: error toast, then await viewCart()
QCatch(op) ==
    [op EXCEPT !.pc = "refetch", !.toasts = Append(@, "error")]

\* the rest of the timer callback once retryWithBackoff has moved on
QContinue(t, op1, d) ==
    CASE op1.pc = "returned" ->
           /\ dom' = ShowItemLoading(d, op1.pid, FALSE)
           /\ quantityUpdateTimeouts' = DeleteTimeout(op1.pid)
           /\ qops' = [qops EXCEPT ![t] =
                  [op1 EXCEPT !.pc = "done", !.toasts = Append(@, "success")]]
           /\ UNCHANGED <<fetches, rops>>
      [] op1.pc = "thrown" /\ QCatch(op1).pc = "refetch" ->
           /\ StartViewCart(<<"q", t>>)
           /\ qops' = [qops EXCEPT ![t] = QCatch(op1)]
           /\ UNCHANGED quantityUpdateTimeouts
      [] op1.pc = "thrown" /\ QCatch(op1).pc # "refetch" ->
           /\ dom' = ShowItemLoading(d, op1.pid, FALSE)
           /\ quantityUpdateTimeouts' = DeleteTimeout(op1.pid)
           /\ qops' = [qops EXCEPT ![t] = [QCatch(op1) EXCEPT !.pc = "done"]]
           /\ UNCHANGED <<fetches, rops>>
      [] OTHER ->
           /\ dom' = d
           /\ qops' = [qops EXCEPT ![t] = op1]
           /\ UNCHANGED <<fetches, rops, quantityUpdateTimeouts>>

\* the 500 ms timer of a debounced update fires
TimerFire(t) ==
    /\ qops[t].pc = "armed"
    /\ QContinue(t, RetryNext([qops[t] EXCEPT !.latest = (t = LastIntent(qops[t].pid))], 1),
                 ShowItemLoading(dom, qops[t].pid, TRUE))
    /\ UNCHANGED <<serverCart, cartFilter, panelOpen, cartItemCount, mops,
                   userViews,
                   lastRender, clearModal, cops, aops,
                   iops, lops, lastView, authState, poll>>

\* the cart service handles one POST /api/cart/update-quantity
QServer(t, o) ==
    /\ qops[t].pc = "sent"
    /\ serverCart' = IF o[1] THEN ServerSetQuantity(serverCart, qops[t].pid, qops[t].qty)
                     ELSE serverCart
    /\ qops' = [qops EXCEPT ![t].pc = "replied", ![t].res = o[2]]
    /\ UNCHANGED <<cartFilter, panelOpen, dom, cartItemCount, fetches,
                   quantityUpdateTimeouts, mops, rops, userViews,
                   lastRender, clearModal, cops, aops,
                   iops, lops, lastView, authState, poll>>

\* the response (or the network error) of an attempt reaches the client
QReceive(t) ==
    /\ qops[t].pc = "replied"
    /\ QContinue(t, RetryOnReply(Observe(qops[t])), dom)
    /\ UNCHANGED <<serverCart, cartFilter, panelOpen, cartItemCount, mops,
                   userViews,
                   lastRender, clearModal, cops, aops,
                   iops, lops, lastView, authState, poll>>

\* the backoff wait of an attempt is over
QBackoffDone(t) ==
    /\ qops[t].pc = "backoff"
    /\ QContinue(t, RetryNext(qops[t], qops[t].attempt + 1), dom)
    /\ UNCHANGED <<serverCart, cartFilter, panelOpen, cartItemCount, mops,
                   userViews,
                   lastRender, clearModal, cops, aops,
                   iops, lops, lastView, authState, poll>>

\* ------------------------------------------------- responses of GET /cart/view
IndexOf(s, p) ==
    IF p \in Pids(s) THEN (CHOOSE i \in 1..Len(s) : s[i].pid = p) ELSE 0

ShownQty(d, p) ==
    IF IndexOf(d.items, p) = 0 THEN 0 ELSE d.items[IndexOf(d.items, p)].qty

SnapQty(data, p) ==
    IF IndexOf(data, p) = 0 THEN 0 ELSE data[IndexOf(data, p)].qty

\* a variant of the render that keeps the quantity of a product whose
\* debounced update is still registered
ViewCartResultKeepingPending(fr, stored) ==
    IF fr.res = "ok"
    THEN LET d == RenderCart(fr.data, stored)
         IN  [d EXCEPT !.items = [i \in 1..Len(d.items) |->
                 IF quantityUpdateTimeouts[d.items[i].pid] # 0
                 THEN [d.items[i] EXCEPT
                          !.qty = qops[quantityUpdateTimeouts[d.items[i].pid]].qty]
                 ELSE d.items[i]]]
    ELSE ErrorDom

\* viewCart() after its await: renderCart(result.data) or the error view
ViewCartResult(fr, stored) ==
    IF fr.res = "ok" THEN RenderCart(fr.data, stored) ELSE ErrorDom

\* updateCartCount() after its await
CountResult(fr, old) ==
    CASE fr.res = "ok" -> SumQty(fr.data)
      [] fr.res = "err" -> old
      [] OTHER -> 0

\* updateCartView() / updateCartCount() up to its await
StartCount(owner) ==
    /\ FreeSlots # {}
    /\ fetches' = [fetches EXCEPT ![FreeSlot] = NewFetch("count", owner)]

\* ------------------------------------------------------ modality toggle
\* the elements of the cart panel that carry an onclick attribute, in
\* document order: per item the image, then the fulfillment icon
OnclickElements(d) ==
    [k \in 1..(2 * Len(d.items)) |->
        <<(k + 1) \div 2, IF k % 2 = 1 THEN "img" ELSE "icon">>]

ElementAt(d, e) == IF e[2] = "img" THEN d.items[e[1]].img ELSE d.items[e[1]].icon

\* document.querySelector(`[onclick*="${productId}"]`): the first element
\* whose onclick text contains the id, <<0, "-">> when there is none
QuerySelectorOnclick(d, p) ==
    LET els == OnclickElements(d)
        hits == {k \in 1..Len(els) :
                    IsSubstring(IdDigits(p), IdDigits(ElementAt(d, els[k]).pid))}
    IN  IF hits = {} THEN <<0, "-">>
        ELSE els[CHOOSE k \in hits : \A h \in hits : k <= h]

\* the optimistic update of toggleItemModality on the selected element
FlipElement(d, e, p, m) ==
    LET el == [face |-> m, fn |-> "toggleItemModality", pid |-> p, arg |-> m]
    IN  IF e[1] = 0 THEN d
        ELSE IF e[2] = "img"
             THEN [d EXCEPT !.items[e[1]].img = el]
             ELSE [d EXCEPT !.items[e[1]].icon = el]

\* what the panel shows of product p: its image and icon elements
ItemFaces(d, p) ==
    IF IndexOf(d.items, p) = 0 THEN <<>>
    ELSE <<d.items[IndexOf(d.items, p)].img, d.items[IndexOf(d.items, p)].icon>>

\* toggleItemModality(productId, currentModality)
ToggleItemModality(p, cur) ==
    /\ dom' = FlipElement(dom, QuerySelectorOnclick(dom, p), p, OtherModality(cur))
    /\ mops' = Append(mops,
           [pid |-> p, mod |-> OtherModality(cur), pc |-> "sent", res |-> "-",
            toasts |-> <<>>, pre |-> ItemFaces(dom, p), post |-> <<>>])

\* the user clicks an element whose onclick is toggleItemModality(...)
ClickToggle(i, which) ==
    /\ panelOpen
    /\ i \in 1..Len(dom.items)
    /\ ElementAt(dom, <<i, which>>).fn = "toggleItemModality"
    /\ ToggleItemModality(ElementAt(dom, <<i, which>>).pid,
                          ElementAt(dom, <<i, which>>).arg)
    /\ UNCHANGED <<serverCart, cartFilter, panelOpen, cartItemCount, fetches,
                   quantityUpdateTimeouts, qops, rops, userViews,
                   lastRender, clearModal, cops, aops,
                   iops, lops, lastView, authState, poll>>

\* the cart service handles one POST /api/cart/update-modality
MServer(m, o) ==
    /\ mops[m].pc = "sent"
    /\ serverCart' = IF o[1] THEN ServerSetModality(serverCart, mops[m].pid, mops[m].mod)
                     ELSE serverCart
    /\ mops' = [mops EXCEPT ![m].pc = "replied", ![m].res = o[2]]
    /\ UNCHANGED <<cartFilter, panelOpen, dom, cartItemCount, fetches,
                   quantityUpdateTimeouts, qops, rops, userViews,
                   lastRender, clearModal, cops, aops,
                   iops, lops, lastView, authState, poll>>

\* updateCartItemModality after its awaits
MReceive(m) ==
    /\ mops[m].pc = "replied"
    /\ IF ~ResultFails(mops[m].res)
       THEN /\ StartViewCart(<<"m", m>>)
            /\ mops' = [mops EXCEPT ![m].pc = "viewing",
                                    ![m].toasts = Append(@, "success")]
       ELSE /\ mops' = [mops EXCEPT ![m].pc = "done",
                                    ![m].toasts = Append(@, "error"),
                                    ![m].post = ItemFaces(dom, mops[m].pid)]
            /\ UNCHANGED <<dom, fetches, rops>>
    /\ UNCHANGED <<serverCart, cartFilter, panelOpen, cartItemCount,
                   quantityUpdateTimeouts, qops, userViews,
                   lastRender, clearModal, cops, aops,
                   iops, lops, lastView, authState, poll>>

\* ------------------------------------------------------------- removal
RemoveItemEl(d, p) == [d EXCEPT !.items = FilterSeq(@, ProductIds \ {p})]

\* checkEmptyCart()
CheckEmptyCart(d) ==
    IF Len(d.items) = 0 THEN [kind |-> "empty", items |-> <<>>] ELSE d

\* the rest of removeFromCart once retryWithBackoff has moved on
RContinue(r, op1) ==
    CASE op1.pc = "returned" ->
           /\ StartCount(<<"r", r>>)
           /\ rops' = [rops EXCEPT ![r] =
                  [op1 EXCEPT !.pc = "counting", !.anim = "pending",
                              !.toasts = Append(@, "success")]]
           /\ UNCHANGED dom
      [] op1.pc = "thrown" ->
           /\ dom' = ShowItemLoading(dom, op1.pid, FALSE)
           /\ rops' = [rops EXCEPT ![r] =
                  [op1 EXCEPT !.pc = "done", !.toasts = Append(@, "error"),
                      !.visible = (IndexOf(dom.items, op1.pid) # 0),
                      !.usable = (\A i \in 1..Len(dom.items) :
                                     ~ShowItemLoading(dom, op1.pid, FALSE).items[i].disabled),
                      !.inServer = (op1.pid \in Pids(serverCart))]]
           /\ UNCHANGED fetches
      [] OTHER ->
           /\ rops' = [rops EXCEPT ![r] = op1]
           /\ UNCHANGED <<dom, fetches>>

\* removeFromCart(productId)
RemoveFromCart(p) ==
    /\ dom' = ShowItemLoading(dom, p, TRUE)
    /\ rops' = Append(rops,
           RetryNext([pid |-> p, attached |-> TRUE, anim |-> "none",
                      pc |-> "new", attempt |-> 0, calls |-> 0, ret |-> 0,
                      err |-> 0, okAt |-> 0, out |-> "-", res |-> "-",
                      toasts |-> <<>>, waits |-> <<>>, seen |-> <<>>,
                      visible |-> TRUE, usable |-> TRUE,
                      inServer |-> TRUE], 1))

\* click handler, data-action remove-item
ClickRemove(i) ==
    /\ panelOpen
    /\ i \in 1..Len(dom.items)
    /\ ~dom.items[i].disabled
    /\ RemoveFromCart(dom.items[i].pid)
    /\ UNCHANGED <<serverCart, cartFilter, panelOpen, cartItemCount, fetches,
                   quantityUpdateTimeouts, qops, mops, userViews,
                   lastRender, clearModal, cops, aops,
                   iops, lops, lastView, authState, poll>>

\* the cart service handles one POST /api/cart/remove
RServer(r, o) ==
    /\ rops[r].pc = "sent"
    /\ serverCart' = IF o[1] THEN ServerRemove(serverCart, rops[r].pid) ELSE serverCart
    /\ rops' = [rops EXCEPT ![r].pc = "replied", ![r].res = o[2]]
    /\ UNCHANGED <<cartFilter, panelOpen, dom, cartItemCount, fetches,
                   quantityUpdateTimeouts, qops, mops, userViews,
                   lastRender, clearModal, cops, aops,
                   iops, lops, lastView, authState, poll>>

RReceive(r) ==
    /\ rops[r].pc = "replied"
    /\ RContinue(r, RetryOnReply(Observe(rops[r])))
    /\ UNCHANGED <<serverCart, cartFilter, panelOpen, cartItemCount,
                   quantityUpdateTimeouts, qops, mops, userViews,
                   lastRender, clearModal, cops, aops,
                   iops, lops, lastView, authState, poll>>

RBackoffDone(r) ==
    /\ rops[r].pc = "backoff"
    /\ RContinue(r, RetryNext(rops[r], rops[r].attempt + 1))
    /\ UNCHANGED <<serverCart, cartFilter, panelOpen, cartItemCount,
                   quantityUpdateTimeouts, qops, mops, userViews,
                   lastRender, clearModal, cops, aops,
                   iops, lops, lastView, authState, poll>>

\* the two 300 ms timers of the removal animation have run: the element is
\* removed, the header count is re-read and the empty state is checked
RAnimDone(r) ==
    /\ rops[r].anim = "pending"
    /\ StartCount(<<"none", 0>>)
    /\ LET d1 == IF rops[r].attached THEN RemoveItemEl(dom, rops[r].pid) ELSE dom
       IN  /\ dom' = CheckEmptyCart(d1)
           /\ rops' = IF Len(d1.items) = 0 /\ d1.kind \in {"blank", "spinner", "error"}
                      THEN [DetachAll(rops) EXCEPT ![r].anim = "removed"]
                      ELSE [rops EXCEPT ![r].anim = "removed"]
    /\ UNCHANGED <<serverCart, cartFilter, panelOpen, cartItemCount,
                   quantityUpdateTimeouts, qops, mops, userViews,
                   lastRender, clearModal, cops, aops,
                   iops, lops, lastView, authState, poll>>

\* ------------------------------------------------- responses of GET /cart/view
\* the view lists exactly the snapshot's items that pass the filter, each
\* with the snapshot's quantity and modality and with enabled controls
ShowsSnapshot(d, data, f) ==
    /\ \A i \in 1..Len(d.items) :
          /\ IndexOf(data, d.items[i].pid) # 0
          /\ d.items[i].qty = SnapQty(data, d.items[i].pid)
          /\ d.items[i].icon.face = data[IndexOf(data, d.items[i].pid)].mod
    /\ \A j \in 1..Len(data) :
          MatchesFilter(data[j], StoredFilter(f)) => IndexOf(d.items, data[j].pid) # 0

\* what the debounced update records when its re-fetch is over (finally)
QAfterRefetch(op, fr, d, f) ==
    [op EXCEPT !.pc = "done", !.refetch = fr.res,
               !.reconciled = (fr.res = "ok" /\ ShowsSnapshot(d, fr.data, f)),
               !.shownQty = ShownQty(d, op.pid),
               !.snapQty = SnapQty(fr.data, op.pid)]

\* ------------------------------------------------------------- clearing
\* POST /cart/clear as applied by the cart service
ServerClear(cart) == <<>>

\* POST /cart/clear-local as applied by the cart service: the external cart
\* is not touched
ServerClearLocal(cart) == cart

ApplyClear(cart, endpoint) ==
    IF endpoint = "/api/cart/clear" THEN ServerClear(cart) ELSE ServerClearLocal(cart)

\* a variant in which both confirm handlers post to the remote endpoint
ClearEndpointRemoteOnly(scope) == "/api/cart/clear"

\* the endpoint confirmClearCart / confirmClearLocalCart posts to
ClearEndpoint(scope) ==
    IF scope = "REMOTE" THEN "/api/cart/clear" ELSE "/api/cart/clear-local"

NewClearOp(scope, confirmed) ==
    [scope |-> scope, confirmed |-> confirmed, pc |-> "new", attempt |-> 0,
     calls |-> 0, ret |-> 0, err |-> 0, okAt |-> 0, out |-> "-", res |-> "-",
     toasts |-> <<>>, waits |-> <<>>, seen |-> <<>>, posts |-> <<>>,
     extChanged |-> FALSE, refetch |-> "none", viewKind |-> "-",
     shownAfter |-> 0, extAfter |-> 0]

\* a variant of clearCart() that starts the remote clear right away
ClearCartWithoutDialog ==
    /\ clearModal' = TRUE
    /\ cops' = Append(cops, RetryNext(NewClearOp("REMOTE", FALSE), 1))

\* clearCart(): show the confirmation modal
ClearCart ==
    /\ clearModal' = TRUE
    /\ UNCHANGED cops

\* click handler, data-action clear-cart (the button of the cart header)
ClickClearCart ==
    /\ panelOpen
    /\ dom.kind \in {"items", "empty", "noMatch"}
    /\ ClearCart
    /\ UNCHANGED <<serverCart, cartFilter, panelOpen, dom, cartItemCount,
                   fetches, quantityUpdateTimeouts, qops, mops, rops,
                   userViews, lastRender, aops,
                   iops, lops, lastView, authState, poll>>

\* closeClearCartModal(), from the modal's cancel button
CloseClearCartModal ==
    /\ clearModal
    /\ clearModal' = FALSE
    /\ UNCHANGED <<serverCart, cartFilter, panelOpen, dom, cartItemCount,
                   fetches, quantityUpdateTimeouts, qops, mops, rops,
                   userViews, lastRender, cops, aops,
                   iops, lops, lastView, authState, poll>>

\* confirmClearCart() / confirmClearLocalCart() up to the first await, from
\* the modal's confirm buttons
ConfirmClear(scope) ==
    /\ clearModal
    /\ clearModal' = FALSE
    /\ cops' = Append(cops, RetryNext(NewClearOp(scope, TRUE), 1))
    /\ UNCHANGED <<serverCart, cartFilter, panelOpen, dom, cartItemCount,
                   fetches, quantityUpdateTimeouts, qops, mops, rops,
                   userViews, lastRender, aops,
                   iops, lops, lastView, authState, poll>>

\* the cart service handles one POST of a clear
CServer(c, o) ==
    /\ cops[c].pc = "sent"
    /\ serverCart' = IF o[1] THEN ApplyClear(serverCart, ClearEndpoint(cops[c].scope))
                     ELSE serverCart
    /\ cops' = [cops EXCEPT ![c].pc = "replied", ![c].res = o[2],
                            ![c].posts = Append(@, ClearEndpoint(cops[c].scope)),
                            ![c].extChanged = @ \/ (serverCart' # serverCart)]
    /\ UNCHANGED <<cartFilter, panelOpen, dom, cartItemCount, fetches,
                   quantityUpdateTimeouts, qops, mops, rops, userViews,
                   lastRender, clearModal, aops,
                   iops, lops, lastView, authState, poll>>

\* the rest of the confirm handler once retryWithBackoff has moved on
CContinue(c, op1) ==
    CASE op1.pc = "returned" ->
           /\ StartViewCart(<<"c", c>>)
           /\ cops' = [cops EXCEPT ![c] =
                  [op1 EXCEPT !.pc = "viewing", !.toasts = Append(@, "success")]]
      [] op1.pc = "thrown" ->
           /\ cops' = [cops EXCEPT ![c] =
                  [op1 EXCEPT !.pc = "done", !.toasts = Append(@, "error")]]
           /\ UNCHANGED <<dom, rops, fetches>>
      [] OTHER ->
           /\ cops' = [cops EXCEPT ![c] = op1]
           /\ UNCHANGED <<dom, rops, fetches>>

CReceive(c) ==
    /\ cops[c].pc = "replied"
    /\ CContinue(c, RetryOnReply(Observe(cops[c])))
    /\ UNCHANGED <<serverCart, cartFilter, panelOpen, cartItemCount,
                   quantityUpdateTimeouts, qops, mops, userViews,
                   lastRender, clearModal, aops,
                   iops, lops, lastView, authState, poll>>

CBackoffDone(c) ==
    /\ cops[c].pc = "backoff"
    /\ CContinue(c, RetryNext(cops[c], cops[c].attempt + 1))
    /\ UNCHANGED <<serverCart, cartFilter, panelOpen, cartItemCount,
                   quantityUpdateTimeouts, qops, mops, userViews,
                   lastRender, clearModal, aops,
                   iops, lops, lastView, authState, poll>>

\* what a confirm handler records when its viewCart() is over
CAfterView(op, fr, d, cart) ==
    [op EXCEPT !.pc = "counting", !.refetch = fr.res, !.viewKind = d.kind,
               !.shownAfter = Len(d.items), !.extAfter = Len(cart)]

\* ----------------------------------------------------------------- adding
\* POST /cart/add as applied by the cart service
ServerAdd(cart, p, q, m) ==
    IF p \in Pids(cart)
    THEN [i \in 1..Len(cart) |->
            IF cart[i].pid = p THEN [cart[i] EXCEPT !.qty = Min(MaxQty, @ + q)]
            ELSE cart[i]]
    ELSE Append(cart, CartItem(p, q, m, CatalogPricing))

\* what checkAuthStatus() can resolve to: nothing (the status fetch failed)
\* or the body of GET /api/auth/status
AuthResults ==
    {[ok |-> FALSE, authenticated |-> FALSE, token_valid |-> FALSE]} \cup
    {[ok |-> TRUE, authenticated |-> a, token_valid |-> t] : a, t \in BOOLEAN}

\* checkAuthStatusForCart()
CheckAuthStatusForCart(r) == r.ok /\ (r.authenticated \/ r.token_valid)

\* the test of addToCartFromDetails on the result of checkAuthStatus()
DetailsAuthOk(r) == r.ok /\ r.authenticated

NewAddOp(entry, p, m) ==
    [entry |-> entry, pid |-> p, mod |-> m, pc |-> "new", checked |-> FALSE,
     auth |-> [ok |-> FALSE, authenticated |-> FALSE, token_valid |-> FALSE],
     prompted |-> FALSE, posts |-> 0, applied |-> 0, attempt |-> 0, calls |-> 0, ret |-> 0,
     err |-> 0, okAt |-> 0, out |-> "-", res |-> "-", toasts |-> <<>>,
     waits |-> <<>>, seen |-> <<>>]

\* a single fetch outside retryWithBackoff
SingleCall(op) == [op EXCEPT !.pc = "sent", !.attempt = 1, !.calls = 1]

\* the outcome of a single fetch: the success branch, or the else / catch
\* branch
SingleOnReply(op) ==
    IF ~ResultFails(op.res)
    THEN [op EXCEPT !.pc = "returned", !.out = "returned", !.ret = op.attempt]
    ELSE [op EXCEPT !.pc = "thrown", !.out = "thrown", !.err = op.attempt]

\* quickAddToCart(productId) up to its first await; m is getGlobalModality()
QuickAddToCart(p, m) ==
    /\ aops' = Append(aops, [NewAddOp("quick", p, m) EXCEPT !.pc = "auth"])
    /\ UNCHANGED <<serverCart, cartFilter, panelOpen, dom, cartItemCount,
                   fetches, quantityUpdateTimeouts, qops, mops, rops,
                   userViews, lastRender, clearModal, cops,
                   iops, lops, lastView, authState, poll>>

\* addToCartFromDetails(productId) up to its first await; m is the modality
\* selected in the details dialog
AddToCartFromDetails(p, m) ==
    /\ aops' = Append(aops, [NewAddOp("details", p, m) EXCEPT !.pc = "auth"])
    /\ UNCHANGED <<serverCart, cartFilter, panelOpen, dom, cartItemCount,
                   fetches, quantityUpdateTimeouts, qops, mops, rops,
                   userViews, lastRender, clearModal, cops,
                   iops, lops, lastView, authState, poll>>

\* addToCart() up to its first await; p = 0 is an empty product id field
AddToCart(p) ==
    /\ aops' = Append(aops,
           IF p = 0
           THEN [NewAddOp("manual", p, "PICKUP") EXCEPT
                    !.pc = "done", !.toasts = Append(@, "error")]
           ELSE SingleCall(NewAddOp("manual", p, "PICKUP")))
    /\ UNCHANGED <<serverCart, cartFilter, panelOpen, dom, cartItemCount,
                   fetches, quantityUpdateTimeouts, qops, mops, rops,
                   userViews, lastRender, clearModal, cops,
                   iops, lops, lastView, authState, poll>>

\* the auth gate of an add, on the result r of its status check: the prompt
\* to authenticate, or the POST /api/cart/add
AuthGate(a, r) ==
    /\ aops[a].pc = "auth"
    /\ LET op == [aops[a] EXCEPT !.checked = TRUE, !.auth = r]
           authStatus == IF op.entry = "quick" THEN CheckAuthStatusForCart(r)
                         ELSE DetailsAuthOk(r)
       IN  aops' = [aops EXCEPT ![a] =
               IF ~authStatus
               THEN [op EXCEPT !.pc = "done", !.prompted = TRUE,
                               !.toasts = Append(@, "error")]
               ELSE IF op.entry = "quick" THEN RetryNext(op, 1)
                    ELSE SingleCall(op)]

\* the auth check of an add resolves to r
AuthReply(a, r) ==
    /\ AuthGate(a, r)
    /\ UNCHANGED <<serverCart, cartFilter, panelOpen, dom, cartItemCount,
                   fetches, quantityUpdateTimeouts, qops, mops, rops,
                   userViews, lastRender, clearModal, cops,
                   iops, lops, lastView, authState, poll>>

\* checkAuthStatus(forceRefresh) answers from authStatusCache: not forced,
\* the cache set and younger than AUTH_CACHE_DURATION
CacheUsable(st, force) == ~force /\ st.cache.ok /\ st.fresh

\* what checkAuthStatus(forceRefresh) resolves to; r is the answer of
\* GET /api/auth/status when the fetch is made, r.ok = FALSE a failed fetch
StatusResult(st, force, r) ==
    IF CacheUsable(st, force) THEN st.cache ELSE r

\* authStatusCache and authStatusCacheTime after checkAuthStatus(forceRefresh):
\* written only by a fetch that answered; an answer that reports the user
\* authenticated ends the logged-out period
StatusCache(st, force, r) ==
    IF CacheUsable(st, force) \/ ~r.ok THEN st
    ELSE [cache |-> r, fresh |-> TRUE,
          loggedOut |-> st.loggedOut /\ ~(r.authenticated \/ r.token_valid)]

\* checkAuthStatus() at page load, checkAuthStatus(true) on opening the
\* auth modal
CheckAuthStatus(force, r) ==
    /\ authState' = StatusCache(authState, force, r)
    /\ authState' # authState
    /\ UNCHANGED <<serverCart, cartFilter, panelOpen, dom, cartItemCount,
                   fetches, quantityUpdateTimeouts, qops, mops, rops,
                   userViews, lastRender, clearModal, cops, aops,
                   iops, lops, lastView, poll>>

\* AUTH_CACHE_DURATION has passed since authStatusCacheTime
CacheExpires ==
    /\ authState.fresh
    /\ authState' = [authState EXCEPT !.fresh = FALSE]
    /\ UNCHANGED <<serverCart, cartFilter, panelOpen, dom, cartItemCount,
                   fetches, quantityUpdateTimeouts, qops, mops, rops,
                   userViews, lastRender, clearModal, cops, aops,
                   iops, lops, lastView, poll>>

\* the auth check of an add resolves through checkAuthStatus()
AuthCheck(a, r) ==
    /\ AuthGate(a, StatusResult(authState, FALSE, r))
    /\ authState' = StatusCache(authState, FALSE, r)
    /\ UNCHANGED <<serverCart, cartFilter, panelOpen, dom, cartItemCount,
                   fetches, quantityUpdateTimeouts, qops, mops, rops,
                   userViews, lastRender, clearModal, cops,
                   iops, lops, lastView, poll>>

\* the cart service handles one POST /api/cart/add
AServer(a, o) ==
    /\ aops[a].pc = "sent"
    /\ serverCart' = IF o[1] THEN ServerAdd(serverCart, aops[a].pid, 1, aops[a].mod)
                     ELSE serverCart
    /\ aops' = [aops EXCEPT ![a].pc = "replied", ![a].res = o[2],
                            ![a].posts = @ + 1,
                            ![a].applied = IF o[1] THEN @ + 1 ELSE @]
    /\ UNCHANGED <<cartFilter, panelOpen, dom, cartItemCount, fetches,
                   quantityUpdateTimeouts, qops, mops, rops, userViews,
                   lastRender, clearModal, cops,
                   iops, lops, lastView, authState, poll>>

\* the rest of an add once its request has settled
AContinue(a, op1) ==
    CASE op1.pc = "returned" ->
           /\ StartCount(<<"a", a>>)
           /\ aops' = [aops EXCEPT ![a] =
                  [op1 EXCEPT !.pc = "counting", !.toasts = Append(@, "success")]]
      [] op1.pc = "thrown" ->
           /\ aops' = [aops EXCEPT ![a] =
                  [op1 EXCEPT !.pc = "done", !.toasts = Append(@, "error")]]
           /\ UNCHANGED fetches
      [] OTHER ->
           /\ aops' = [aops EXCEPT ![a] = op1]
           /\ UNCHANGED fetches

AReceive(a) ==
    /\ aops[a].pc = "replied"
    /\ AContinue(a, IF aops[a].entry = "quick"
                    THEN RetryOnReply(Observe(aops[a]))
                    ELSE SingleOnReply(Observe(aops[a])))
    /\ UNCHANGED <<serverCart, cartFilter, panelOpen, dom, cartItemCount,
                   quantityUpdateTimeouts, qops, mops, rops, userViews,
                   lastRender, clearModal, cops,
                   iops, lops, lastView, authState, poll>>

ABackoffDone(a) ==
    /\ aops[a].pc = "backoff"
    /\ AContinue(a, RetryNext(aops[a], aops[a].attempt + 1))
    /\ UNCHANGED <<serverCart, cartFilter, panelOpen, dom, cartItemCount,
                   quantityUpdateTimeouts, qops, mops, rops, userViews,
                   lastRender, clearModal, cops,
                   iops, lops, lastView, authState, poll>>

\* quickAddToCart and addToCart refresh an open panel after the count
AddRefreshesPanel(op) == op.entry \in {"quick", "manual"} /\ panelOpen

\* ------------------------------------------------------ manual cart entry
\* a text is a sequence of characters; a line of the textarea is the
\* sequence of its comma-separated parts, as line.split(',') returns them
IsSpace(c) == c = " "

RECURSIVE TrimStart(_)
TrimStart(t) ==
    IF t # <<>> /\ IsSpace(Head(t)) THEN TrimStart(Tail(t)) ELSE t

RECURSIVE TrimEnd(_)
TrimEnd(t) ==
    IF t # <<>> /\ IsSpace(t[Len(t)]) THEN TrimEnd(SubSeq(t, 1, Len(t) - 1)) ELSE t

\* String.prototype.trim()
Trim(t) == TrimEnd(TrimStart(t))

DigitChars == {"0", "1", "2", "3", "4", "5", "6", "7", "8", "9"}

DigitVal(c) ==
    CASE c = "0" -> 0 [] c = "1" -> 1 [] c = "2" -> 2 [] c = "3" -> 3
      [] c = "4" -> 4 [] c = "5" -> 5 [] c = "6" -> 6 [] c = "7" -> 7
      [] c = "8" -> 8 [] OTHER -> 9

NaN == [nan |-> TRUE, val |-> 0]

\* the longest prefix of decimal digits, read as a number
RECURSIVE ParseDigits(_, _, _)
ParseDigits(t, acc, any) ==
    IF t # <<>> /\ Head(t) \in DigitChars
    THEN ParseDigits(Tail(t), 10 * acc + DigitVal(Head(t)), TRUE)
    ELSE IF any THEN [nan |-> FALSE, val |-> acc] ELSE NaN

\* parseInt(text): leading white space, an optional sign, then digits; NaN
\* when no digit follows
ParseInt(text) ==
    LET t == TrimStart(text)
        signed == t # <<>> /\ Head(t) \in {"-", "+"}
        r == ParseDigits(IF signed THEN Tail(t) ELSE t, 0, FALSE)
    IN  IF r.nan THEN NaN
        ELSE [nan |-> FALSE, val |-> IF signed /\ Head(t) = "-" THEN 0 - r.val ELSE r.val]

\* parseInt(...) || 1: NaN and 0 are falsy
OrOne(n) == IF n.nan \/ n.val = 0 THEN 1 ELSE n.val

\* the text of a line: its parts joined by commas
RECURSIVE JoinParts(_)
JoinParts(parts) ==
    IF Len(parts) = 0 THEN <<>>
    ELSE IF Len(parts) = 1 THEN parts[1]
         ELSE parts[1] \o <<",">> \o JoinParts(Tail(parts))

\* !line.trim()
IsBlankLine(parts) == Trim(JoinParts(parts)) = <<>>

\* a variant of the loop that stops at the first line it rejects
RECURSIVE ParseManualLinesAborting(_, _)
ParseManualLinesAborting(lines, k) ==
    IF k > Len(lines) THEN [items |-> <<>>, invalid |-> <<>>]
    ELSE IF IsBlankLine(lines[k]) THEN ParseManualLinesAborting(lines, k + 1)
    ELSE IF Len(lines[k]) < 2 THEN [items |-> <<>>, invalid |-> <<k>>]
    ELSE LET rest == ParseManualLinesAborting(lines, k + 1)
         IN  [rest EXCEPT !.items =
                 <<[product_id |-> Trim(lines[k][1]),
                    quantity |-> OrOne(ParseInt(Trim(lines[k][2])))]>> \o @]

\* the for loop of submitManualCartItems over lines k, k+1, ...: the items
\* pushed and the numbers of the lines reported as invalid
RECURSIVE ParseManualLines(_, _)
ParseManualLines(lines, k) ==
    IF k > Len(lines) THEN [items |-> <<>>, invalid |-> <<>>]
    ELSE LET rest == ParseManualLines(lines, k + 1)
         IN  IF IsBlankLine(lines[k]) THEN rest
             ELSE IF Len(lines[k]) < 2
                  THEN [rest EXCEPT !.invalid = <<k>> \o @]
                  ELSE [rest EXCEPT !.items =
                          <<[product_id |-> Trim(lines[k][1]),
                             quantity |-> OrOne(ParseInt(Trim(lines[k][2])))]>> \o @]

\* product ids and quantities as a user may type them
IdTexts == {<<>>, <<"1">>, <<" ", "2">>}

QtyTexts == {<<"x">>, <<"0">>, <<"2">>, <<"-", "2">>, <<" ", "3">>}

\* lines of the textarea: blank, without a comma, id and quantity, and one
\* with a third part
ManualLines ==
    {<<t>> : t \in {<<>>, <<" ">>, <<"1">>}}
    \cup {<<id, q>> : id \in IdTexts, q \in QtyTexts}
    \cup {<< <<"2">>, <<"2">>, <<"x">> >>}

TextAreas == UNION {[1..n -> ManualLines] : n \in 0..MaxLines}

\* the product a product_id text names at the cart service, 0 when none
ProductOf(text) ==
    IF Len(text) = 1 /\ text[1] \in DigitChars /\ DigitVal(text[1]) \in ProductIds
    THEN DigitVal(text[1]) ELSE 0

\* POST /cart/import as applied by the cart service: the tracked cart becomes
\* the imported items of known products, quantities clamped to [1, 99]
RECURSIVE ServerImport(_)
ServerImport(items) ==
    IF items = <<>> THEN <<>>
    ELSE LET p == ProductOf(Head(items).product_id)
             rest == ServerImport(Tail(items))
         IN  IF p = 0 \/ p \in Pids(rest) THEN rest
             ELSE <<CartItem(p, Max(MinQty, Min(MaxQty, Head(items).quantity)),
                             "PICKUP", CatalogPricing)>> \o rest

\* submitManualCartItems() up to its await
SubmitManualCartItems(lines) ==
    /\ LET parsed == ParseManualLines(lines, 1)
           op == [lines |-> lines, items |-> parsed.items,
                  invalid |-> parsed.invalid, posts |-> 0, res |-> "-",
                  pc |-> "sent",
                  toasts |-> [k \in 1..Len(parsed.invalid) |-> "error"]]
       IN  iops' = Append(iops,
               IF \A k \in 1..Len(lines) : IsBlankLine(lines[k])
               THEN [op EXCEPT !.pc = "done", !.toasts = <<"error">>,
                               !.items = <<>>, !.invalid = <<>>]
               ELSE IF Len(parsed.items) = 0
                    THEN [op EXCEPT !.pc = "done", !.toasts = Append(@, "error")]
                    ELSE [op EXCEPT !.toasts = Append(@, "info")])
    /\ UNCHANGED <<serverCart, cartFilter, panelOpen, dom, cartItemCount,
                   fetches, quantityUpdateTimeouts, qops, mops, rops,
                   userViews, lastRender, clearModal, cops, aops, lops,
                   lastView, authState, poll>>

\* the cart service handles one POST /api/cart/import
IServer(i, o) ==
    /\ iops[i].pc = "sent"
    /\ serverCart' = IF o[1] THEN ServerImport(iops[i].items) ELSE serverCart
    /\ iops' = [iops EXCEPT ![i].pc = "replied", ![i].res = o[2],
                            ![i].posts = @ + 1]
    /\ UNCHANGED <<cartFilter, panelOpen, dom, cartItemCount, fetches,
                   quantityUpdateTimeouts, qops, mops, rops, userViews,
                   lastRender, clearModal, cops, aops, lops, lastView, authState, poll>>

\* submitManualCartItems after its awaits: the success branch starts
\* updateCartView(), the else branch and the catch block show a notice
IReceive(i) ==
    /\ iops[i].pc = "replied"
    /\ IF ~ResultFails(iops[i].res)
       THEN /\ StartCount(<<"i", i>>)
            /\ iops' = [iops EXCEPT ![i].pc = "counting",
                                    ![i].toasts = Append(@, "success")]
       ELSE /\ iops' = [iops EXCEPT ![i].pc = "done",
                                    ![i].toasts = Append(@, "error")]
            /\ UNCHANGED fetches
    /\ UNCHANGED <<serverCart, cartFilter, panelOpen, dom, cartItemCount,
                   quantityUpdateTimeouts, qops, mops, rops, userViews,
                   lastRender, clearModal, cops, aops, lops, lastView, authState, poll>>

\* ------------------------------------------------------------------ logout
\* the scripts that define logoutFromKroger: static/js/cart.js, and utils.js,
\* which the page loads before it; which definition the logout button
\* reaches is left open
LogoutScripts == {"cart.js", "utils.js"}

NewLOp(script) ==
    [script |-> script, pc |-> "sent", res |-> "-", toasts |-> <<>>]

\* logoutFromKroger() with the confirm dialog accepted: POST /api/auth/logout
ClickLogout(script) ==
    /\ lops' = Append(lops, NewLOp(script))
    /\ UNCHANGED <<serverCart, cartFilter, panelOpen, dom, cartItemCount,
                   fetches, quantityUpdateTimeouts, qops, mops, rops,
                   userViews, lastRender, clearModal, cops, aops,
                   iops, lastView, authState, poll>>

\* the service answers the logout request
LServer(l, res) ==
    /\ lops[l].pc = "sent"
    /\ lops' = [lops EXCEPT ![l].pc = "replied", ![l].res = res]
    /\ UNCHANGED <<serverCart, cartFilter, panelOpen, dom, cartItemCount,
                   fetches, quantityUpdateTimeouts, qops, mops, rops,
                   userViews, lastRender, clearModal, cops, aops,
                   iops, lastView, authState, poll>>

\* clearCartUI() of utils.js: #cartItems and #cartSummary are elements no
\* page of the application holds, the cart is rendered in #cartResults;
\* what it changes is the header count, set to '0'
ClearCartUI(count) == 0

\* the header count after a logout response handled by the given script
CountAfterLogout(op, count) ==
    IF op.res = "ok" /\ op.script = "utils.js" THEN ClearCartUI(count)
    ELSE count

\* the logout response reaches the client: success or error toast; the
\* utils.js definition also calls clearCartUI()
LReceive(l) ==
    /\ lops[l].pc = "replied"
    /\ lops' = [lops EXCEPT ![l].pc = IF lops[l].res = "ok" THEN "refresh"
                                       ELSE "done",
                            ![l].toasts = Append(@, IF lops[l].res = "ok"
                                                    THEN "success" ELSE "error")]
    /\ cartItemCount' = CountAfterLogout(lops[l], cartItemCount)
    /\ authState' = IF lops[l].res = "ok"
                    THEN [authState EXCEPT !.loggedOut = TRUE]
                    ELSE authState
    /\ UNCHANGED <<serverCart, cartFilter, panelOpen, dom,
                   fetches, quantityUpdateTimeouts, qops, mops, rops,
                   userViews, lastRender, clearModal, cops, aops,
                   iops, lastView, poll>>

\* await checkAuthStatus(true) of a successful logout resolves: r is the
\* answer of GET /api/auth/status, or the failed fetch
LRefresh(l, r) ==
    /\ lops[l].pc = "refresh"
    /\ lops' = [lops EXCEPT ![l].pc = "done"]
    /\ authState' = StatusCache(authState, TRUE, r)
    /\ UNCHANGED <<serverCart, cartFilter, panelOpen, dom, cartItemCount,
                   fetches, quantityUpdateTimeouts, qops, mops, rops,
                   userViews, lastRender, clearModal, cops, aops,
                   iops, lastView, poll>>

\* ------------------------------------------------- authentication polling
\* authenticateWithKroger() up to its first await: the button disabled,
\* POST /api/auth/start
AuthenticateWithKroger ==
    /\ poll.pc \in {"idle", "stopped"}
    /\ ~poll.disabled
    /\ poll' = [pc |-> "starting", attempts |-> 0, disabled |-> TRUE,
                notice |-> "starting", delay |-> 0, sawAuth |-> FALSE]
    /\ UNCHANGED <<serverCart, cartFilter, panelOpen, dom, cartItemCount,
                   fetches, quantityUpdateTimeouts, qops, mops, rops,
                   userViews, lastRender, clearModal, cops, aops,
                   iops, lops, lastView, authState>>

\* the answer to POST /api/auth/start: an authorization url whose window
\* opens, then pollForAuthCompletion() and its first setTimeout; or an
\* error, a refusal or a blocked popup, handled by the catch block
AuthStartReply(res) ==
    /\ poll.pc = "starting"
    /\ poll' = IF res = "url"
               THEN [poll EXCEPT !.pc = "waiting", !.notice = "waiting",
                                 !.delay = PollDelay]
               ELSE [poll EXCEPT !.pc = "idle", !.notice = "error",
                                 !.disabled = FALSE]
    /\ UNCHANGED <<serverCart, cartFilter, panelOpen, dom, cartItemCount,
                   fetches, quantityUpdateTimeouts, qops, mops, rops,
                   userViews, lastRender, clearModal, cops, aops,
                   iops, lops, lastView, authState>>

\* the timer of checkAuth fires: attempts++, GET /api/auth/check
PollTimer ==
    /\ poll.pc = "waiting"
    /\ poll' = [poll EXCEPT !.pc = "checking", !.attempts = @ + 1]
    /\ UNCHANGED <<serverCart, cartFilter, panelOpen, dom, cartItemCount,
                   fetches, quantityUpdateTimeouts, qops, mops, rops,
                   userViews, lastRender, clearModal, cops, aops,
                   iops, lops, lastView, authState>>

\* checkAuth after its fetch: r is what GET /api/auth/check answered, or
\* "throw" when the fetch or the parsing of its body failed
CheckAuth(p, r) ==
    CASE r = "authenticated" ->
           [p EXCEPT !.pc = "stopped", !.sawAuth = TRUE, !.disabled = TRUE,
                     !.notice = "success"]
      [] r = "unauthenticated" /\ p.attempts < MaxAttempts ->
           [p EXCEPT !.pc = "waiting", !.delay = PollDelay]
      [] r = "unauthenticated" /\ p.attempts >= MaxAttempts ->
           [p EXCEPT !.pc = "stopped", !.disabled = FALSE,
                     !.notice = "timeout"]
      [] r = "throw" /\ p.attempts < MaxAttempts ->
           [p EXCEPT !.pc = "waiting", !.delay = PollDelay]
      [] OTHER ->
           [p EXCEPT !.pc = "stopped"]

\* the status check of the poll resolves
PollReply(r) ==
    /\ poll.pc = "checking"
    /\ poll' = CheckAuth(poll, r)
    /\ UNCHANGED <<serverCart, cartFilter, panelOpen, dom, cartItemCount,
                   fetches, quantityUpdateTimeouts, qops, mops, rops,
                   userViews, lastRender, clearModal, cops, aops,
                   iops, lops, lastView, authState>>

\* ------------------------------------------------ responses reach the client
SetPc(ops, own, kind, pc) ==
    IF own[1] = kind THEN [ops EXCEPT ![own[2]].pc = pc] ELSE ops

FetchReceive(f) ==
    LET fr == fetches[f]
        own == fr.owner
    IN
    /\ fr.kind # "free"
    /\ fr.pc = "replied"
    /\ IF fr.kind = "view"
       THEN LET d1 == ViewCartResult(fr, cartFilter) IN
            /\ cartFilter' = IF fr.res = "ok" THEN RenderFilter(fr.data, cartFilter)
                             ELSE cartFilter
            /\ lastRender' = IF fr.res = "ok" THEN RenderRecord(fr.data, cartFilter)
                             ELSE lastRender
            /\ lastView' = ViewHandled(lastView, fr)
            /\ rops' = DetachAll(rops)
            /\ UNCHANGED cartItemCount
            /\ aops' = SetPc(aops, own, "a", "done")
            /\ iops' = SetPc(iops, own, "i", "done")
            /\ CASE own[1] = "q" ->
                      /\ dom' = ShowItemLoading(d1, qops[own[2]].pid, FALSE)
                      /\ qops' = [qops EXCEPT ![own[2]] =
                                     QAfterRefetch(@, fr, dom', cartFilter')]
                      /\ quantityUpdateTimeouts' = DeleteTimeout(qops[own[2]].pid)
                      /\ fetches' = [fetches EXCEPT ![f] = NoFetch]
                      /\ UNCHANGED <<mops, cops>>
                 [] own[1] = "m" ->
                      /\ dom' = d1
                      /\ mops' = [mops EXCEPT ![own[2]].pc = "counting"]
                      /\ fetches' = [fetches EXCEPT ![f] = NewFetch("count", own)]
                      /\ UNCHANGED <<qops, quantityUpdateTimeouts, cops>>
                 [] own[1] = "c" ->
                      /\ dom' = d1
                      /\ cops' = [cops EXCEPT ![own[2]] =
                                     CAfterView(@, fr, d1, serverCart)]
                      /\ fetches' = [fetches EXCEPT ![f] = NewFetch("count", own)]
                      /\ UNCHANGED <<qops, quantityUpdateTimeouts, mops>>
                 [] OTHER ->
                      /\ dom' = d1
                      /\ fetches' = [fetches EXCEPT ![f] = NoFetch]
                      /\ UNCHANGED <<qops, mops, quantityUpdateTimeouts, cops>>
       ELSE /\ cartItemCount' = CountResult(fr, cartItemCount)
            /\ mops' = SetPc(mops, own, "m", "done")
            /\ cops' = SetPc(cops, own, "c", "done")
            /\ IF (own[1] = "a" /\ AddRefreshesPanel(aops[own[2]])) \/ own[1] = "i"
               THEN /\ dom' = SpinnerDom
                    /\ rops' = DetachAll(SetPc(rops, own, "r", "done"))
                    /\ fetches' = IssueView(fetches, f, own)
                    /\ aops' = SetPc(aops, own, "a", "viewing")
                    /\ iops' = SetPc(iops, own, "i", "viewing")
               ELSE /\ rops' = SetPc(rops, own, "r", "done")
                    /\ fetches' = [fetches EXCEPT ![f] = NoFetch]
                    /\ aops' = SetPc(aops, own, "a", "done")
                    /\ UNCHANGED <<dom, iops>>
            /\ UNCHANGED <<cartFilter, qops, quantityUpdateTimeouts, lastRender,
                           lastView>>
    /\ UNCHANGED <<serverCart, panelOpen, userViews, clearModal, lops, authState, poll>>

\* ------------------------------------------------------- specifications
\* user actions are bounded by the caps the specifications pass in
OpenOrCloseCart(views) ==
    \/ ~panelOpen /\ userViews < views /\ ToggleCart
    \/ panelOpen /\ ToggleCart

ServerAnswersView ==
    \E f \in 1..MaxFetches, res \in {"ok", "err", "throw"} : FetchServer(f, res)

\* quantity updates against a cart service that may fail or lose responses
NextQty ==
    \/ OpenOrCloseCart(MaxUserViews)
    \/ /\ Len(qops) < MaxQOps
       /\ \E i \in 1..NumProducts, dir \in {"dec", "inc"} : ClickQty(i, dir)
    \/ \E t \in 1..Len(qops) : TimerFire(t)
    \/ \E t \in 1..Len(qops), o \in Outcomes : QServer(t, o)
    \/ \E t \in 1..Len(qops) : QReceive(t)
    \/ \E t \in 1..Len(qops) : QBackoffDone(t)
    \/ ServerAnswersView
    \/ \E f \in 1..MaxFetches : FetchReceive(f)

SpecQty == Init /\ [][NextQty]_vars

\* bursts of quantity clicks while every request succeeds
NextDebounce ==
    \/ OpenOrCloseCart(MaxViewsWide)
    \/ /\ Len(qops) < MaxBurstOps
       /\ \E i \in 1..NumProducts, dir \in {"dec", "inc"} : ClickQty(i, dir)
    \/ \E t \in 1..Len(qops) : TimerFire(t)
    \/ \E t \in 1..Len(qops) : QServer(t, <<TRUE, "ok">>)
    \/ \E t \in 1..Len(qops) : QReceive(t)
    \/ \E f \in 1..MaxFetches : FetchServer(f, "ok")
    \/ \E f \in 1..MaxFetches : FetchReceive(f)

SpecDebounce == Init /\ [][NextDebounce]_vars

\* modality toggles and filter changes
NextMod ==
    \/ OpenOrCloseCart(MaxViewsWide)
    \/ /\ userViews < MaxViewsWide
       /\ \E f \in {"ALL", "PICKUP", "DELIVERY"} : FilterCartByModality(f)
    \/ /\ Len(mops) < MaxMOps
       /\ \E i \in 1..NumProducts, which \in {"img", "icon"} : ClickToggle(i, which)
    \/ \E m \in 1..Len(mops), o \in Outcomes : MServer(m, o)
    \/ \E m \in 1..Len(mops) : MReceive(m)
    \/ ServerAnswersView
    \/ \E f \in 1..MaxFetches : FetchReceive(f)

SpecMod == Init /\ [][NextMod]_vars

\* item removal
NextRemove ==
    \/ OpenOrCloseCart(MaxUserViews)
    \/ /\ Len(rops) < MaxROps
       /\ \E i \in 1..NumProducts : ClickRemove(i)
    \/ \E r \in 1..Len(rops), o \in Outcomes : RServer(r, o)
    \/ \E r \in 1..Len(rops) : RReceive(r)
    \/ \E r \in 1..Len(rops) : RBackoffDone(r)
    \/ \E r \in 1..Len(rops) : RAnimDone(r)
    \/ ServerAnswersView
    \/ \E f \in 1..MaxFetches : FetchReceive(f)

SpecRemove == Init /\ [][NextRemove]_vars

\* rendering any cart under any stored filter
NextRender ==
    \/ OpenOrCloseCart(MaxUserViews)
    \/ ServerAnswersView
    \/ \E f \in 1..MaxFetches : FetchReceive(f)

SpecRender == InitRender /\ [][NextRender]_vars

\* item removal under any stored filter
SpecFilteredRemove == InitWith(InitCarts, StoredFilters) /\ [][NextRemove]_vars

\* the three add entry points
NextAdd ==
    \/ OpenOrCloseCart(MaxUserViews)
    \/ /\ Len(aops) < MaxAOps
       /\ \E p \in ProductIds, m \in Modalities : QuickAddToCart(p, m)
    \/ /\ Len(aops) < MaxAOps
       /\ \E p \in ProductIds, m \in Modalities : AddToCartFromDetails(p, m)
    \/ /\ Len(aops) < MaxAOps
       /\ \E p \in 0..NumProducts : AddToCart(p)
    \/ \E a \in 1..Len(aops), r \in AuthResults : AuthReply(a, r)
    \/ \E a \in 1..Len(aops), o \in Outcomes : AServer(a, o)
    \/ \E a \in 1..Len(aops) : AReceive(a)
    \/ \E a \in 1..Len(aops) : ABackoffDone(a)
    \/ ServerAnswersView
    \/ \E f \in 1..MaxFetches : FetchReceive(f)

SpecAdd == Init /\ [][NextAdd]_vars

\* the clear-cart dialog and its two confirm buttons
NextClear ==
    \/ OpenOrCloseCart(MaxUserViews)
    \/ Len(cops) < MaxCOps /\ ClickClearCart
    \/ CloseClearCartModal
    \/ /\ Len(cops) < MaxCOps
       /\ \E scope \in {"REMOTE", "LOCAL_ONLY"} : ConfirmClear(scope)
    \/ \E c \in 1..Len(cops), o \in Outcomes : CServer(c, o)
    \/ \E c \in 1..Len(cops) : CReceive(c)
    \/ \E c \in 1..Len(cops) : CBackoffDone(c)
    \/ ServerAnswersView
    \/ \E f \in 1..MaxFetches : FetchReceive(f)

SpecClear == Init /\ [][NextClear]_vars

\* every kind of cart mutation, on the first listed item or on product 1,
\* against a service that refuses requests
TotalOps == Len(qops) + Len(mops) + Len(rops) + Len(aops) + Len(cops)

\* no mutation is under way: the user starts the next one after the last
Quiet ==
    /\ \A i \in 1..Len(qops) : qops[i].pc \in {"done", "cancelled"}
    /\ \A i \in 1..Len(mops) : mops[i].pc = "done"
    /\ \A i \in 1..Len(rops) : rops[i].pc = "done" /\ rops[i].anim # "pending"
    /\ \A i \in 1..Len(cops) : cops[i].pc = "done"
    /\ \A i \in 1..Len(aops) : aops[i].pc = "done"

NextFailures ==
    \/ /\ TotalOps < MaxFailureOps
       /\ Quiet
       /\ \/ ClickQty(1, "inc")
          \/ ClickToggle(1, "icon")
          \/ ClickRemove(1)
          \/ QuickAddToCart(1, "DELIVERY")
          \/ AddToCartFromDetails(1, "PICKUP")
          \/ AddToCart(1)
          \/ ClickClearCart
          \/ \E scope \in {"REMOTE", "LOCAL_ONLY"} : ConfirmClear(scope)
    \/ \E t \in 1..Len(qops) : TimerFire(t)
    \/ \E t \in 1..Len(qops), o \in FailureOutcomes : QServer(t, o)
    \/ \E t \in 1..Len(qops) : QReceive(t)
    \/ \E t \in 1..Len(qops) : QBackoffDone(t)
    \/ \E m \in 1..Len(mops), o \in FailureOutcomes : MServer(m, o)
    \/ \E m \in 1..Len(mops) : MReceive(m)
    \/ \E r \in 1..Len(rops), o \in FailureOutcomes : RServer(r, o)
    \/ \E r \in 1..Len(rops) : RReceive(r)
    \/ \E r \in 1..Len(rops) : RBackoffDone(r)
    \/ \E r \in 1..Len(rops) : RAnimDone(r)
    \/ \E a \in 1..Len(aops) :
          AuthReply(a, [ok |-> TRUE, authenticated |-> TRUE, token_valid |-> TRUE])
    \/ \E a \in 1..Len(aops), o \in FailureOutcomes : AServer(a, o)
    \/ \E a \in 1..Len(aops) : AReceive(a)
    \/ \E a \in 1..Len(aops) : ABackoffDone(a)
    \/ \E c \in 1..Len(cops), o \in FailureOutcomes : CServer(c, o)
    \/ \E c \in 1..Len(cops) : CReceive(c)
    \/ \E c \in 1..Len(cops) : CBackoffDone(c)
    \/ ServerAnswersView
    \/ \E f \in 1..MaxFetches : FetchReceive(f)

SpecFailures == InitOpened /\ [][NextFailures]_vars

\* one optimistic change of the first listed item, and the panel closed and
\* reopened around it
NextReconcile ==
    \/ OpenOrCloseCart(MaxViewsWide)
    \/ /\ TotalOps < MaxQOps
       /\ Quiet
       /\ \/ ClickQty(1, "inc")
          \/ ClickToggle(1, "icon")
          \/ ClickRemove(1)
    \/ \E t \in 1..Len(qops) : TimerFire(t)
    \/ \E t \in 1..Len(qops), o \in PlainOutcomes : QServer(t, o)
    \/ \E t \in 1..Len(qops) : QReceive(t)
    \/ \E t \in 1..Len(qops) : QBackoffDone(t)
    \/ \E m \in 1..Len(mops), o \in PlainOutcomes : MServer(m, o)
    \/ \E m \in 1..Len(mops) : MReceive(m)
    \/ \E r \in 1..Len(rops), o \in PlainOutcomes : RServer(r, o)
    \/ \E r \in 1..Len(rops) : RReceive(r)
    \/ \E r \in 1..Len(rops) : RBackoffDone(r)
    \/ \E r \in 1..Len(rops) : RAnimDone(r)
    \/ ServerAnswersView
    \/ \E f \in 1..MaxFetches : FetchReceive(f)

SpecReconcile == InitOpened /\ [][NextReconcile]_vars

\* one manual cart entry per page load, with any text in the textarea
NextImport ==
    \/ iops = <<>> /\ \E lines \in TextAreas : SubmitManualCartItems(lines)
    \/ \E i \in 1..Len(iops), o \in FailureOutcomes : IServer(i, o)
    \/ \E i \in 1..Len(iops) : IReceive(i)
    \/ ServerAnswersView
    \/ \E f \in 1..MaxFetches : FetchReceive(f)

SpecImport == Init /\ [][NextImport]_vars

\* quantity clicks, modality toggles and removals of the first listed item,
\* in any order and without waiting for one another
NextMixed ==
    \/ /\ TotalOps < MaxBurstOps
       /\ \/ ClickQty(1, "inc")
          \/ ClickToggle(1, "icon")
          \/ ClickRemove(1)
    \/ \E t \in 1..Len(qops) : TimerFire(t)
    \/ \E t \in 1..Len(qops), o \in PlainOutcomes : QServer(t, o)
    \/ \E t \in 1..Len(qops) : QReceive(t)
    \/ \E t \in 1..Len(qops) : QBackoffDone(t)
    \/ \E m \in 1..Len(mops), o \in PlainOutcomes : MServer(m, o)
    \/ \E m \in 1..Len(mops) : MReceive(m)
    \/ \E r \in 1..Len(rops), o \in PlainOutcomes : RServer(r, o)
    \/ \E r \in 1..Len(rops) : RReceive(r)
    \/ \E r \in 1..Len(rops) : RBackoffDone(r)
    \/ \E r \in 1..Len(rops) : RAnimDone(r)
    \/ ServerAnswersView
    \/ \E f \in 1..MaxFetches : FetchReceive(f)

SpecMixed == InitOpened /\ [][NextMixed]_vars

\* quantity clicks on the first listed item; every timer, request, backoff
\* wait and cart fetch eventually completes
ResolveSteps ==
    \/ \E t \in 1..Len(qops) : TimerFire(t)
    \/ \E t \in 1..Len(qops), o \in PlainOutcomes : QServer(t, o)
    \/ \E t \in 1..Len(qops) : QReceive(t)
    \/ \E t \in 1..Len(qops) : QBackoffDone(t)
    \/ ServerAnswersView
    \/ \E f \in 1..MaxFetches : FetchReceive(f)

NextResolve ==
    \/ /\ Len(qops) < MaxBurstOps
       /\ \E dir \in {"dec", "inc"} : ClickQty(1, dir)
    \/ ResolveSteps

SpecResolve == InitOpened /\ [][NextResolve]_vars /\ WF_vars(ResolveSteps)

\* the cart viewed and an item's fulfillment changed, then a logout
NextLogout ==
    \/ lops = <<>> /\ OpenOrCloseCart(MaxViewsWide)
    \/ lops = <<>> /\ Len(mops) < MaxMOps /\ ClickToggle(1, "icon")
    \/ \E m \in 1..Len(mops), o \in PlainOutcomes : MServer(m, o)
    \/ \E m \in 1..Len(mops) : MReceive(m)
    \/ Len(lops) < MaxLOps /\ \E s \in LogoutScripts : ClickLogout(s)
    \/ \E l \in 1..Len(lops), res \in {"ok", "fail", "throw"} : LServer(l, res)
    \/ \E l \in 1..Len(lops) : LReceive(l)
    \/ \E l \in 1..Len(lops), r \in AuthResults : LRefresh(l, r)
    \/ ServerAnswersView
    \/ \E f \in 1..MaxFetches : FetchReceive(f)

SpecLogout == Init /\ [][NextLogout]_vars

\* quantity clicks on the first listed item while an earlier update of it may
\* still be retrying: reopening the panel renders the item with its buttons
\* enabled again
NextRace ==
    \/ OpenOrCloseCart(MaxViewsWide)
    \/ /\ Len(qops) < MaxRaceOps
       /\ \E dir \in {"dec", "inc"} : ClickQty(1, dir)
    \/ \E t \in 1..Len(qops) : TimerFire(t)
    \/ \E t \in 1..Len(qops), o \in PlainOutcomes : QServer(t, o)
    \/ \E t \in 1..Len(qops) : QReceive(t)
    \/ \E t \in 1..Len(qops) : QBackoffDone(t)
    \/ \E f \in 1..MaxFetches : FetchServer(f, "ok")
    \/ \E f \in 1..MaxFetches : FetchReceive(f)

SpecRace == InitOpened /\ [][NextRace]_vars

\* the page with room for one more cart fetch in flight than MaxFetches
InitOverlap ==
    /\ serverCart \in InitCarts
    /\ cartFilter = "NONE"
    /\ lastRender = NoRender
    /\ clearModal = FALSE
    /\ cops = <<>>
    /\ aops = <<>>
    /\ iops = <<>>
    /\ lops = <<>>
    /\ lastView = NoView
    /\ authState = NoAuthState
    /\ poll = NoPoll
    /\ panelOpen = FALSE
    /\ dom = BlankDom
    /\ cartItemCount = 0
    /\ fetches = [f \in 1..(MaxFetches + 1) |-> NoFetch]
    /\ quantityUpdateTimeouts = [p \in ProductIds |-> 0]
    /\ qops = <<>>
    /\ mops = <<>>
    /\ rops = <<>>
    /\ userViews = 0

\* cart fetches that overlap: the panel reopened or the filter changed while
\* a fetch is in flight, and the fetch that follows a modality change
NextOverlap ==
    \/ OpenOrCloseCart(MaxViewsWide)
    \/ /\ userViews < MaxViewsWide
       /\ \E f \in {"PICKUP", "DELIVERY"} : FilterCartByModality(f)
    \/ Len(mops) < MaxQOps /\ ClickToggle(1, "icon")
    \/ \E m \in 1..Len(mops) : MServer(m, <<TRUE, "ok">>)
    \/ \E m \in 1..Len(mops) : MReceive(m)
    \/ \E f \in DOMAIN fetches, res \in {"ok", "err"} : FetchServer(f, res)
    \/ \E f \in DOMAIN fetches : FetchReceive(f)

SpecOverlap == InitOverlap /\ [][NextOverlap]_vars

\* adds from the product list and the details dialog, status checks, the
\* cache running out, and a logout
NextAuthGate ==
    \/ \E force \in BOOLEAN, r \in AuthResults : CheckAuthStatus(force, r)
    \/ CacheExpires
    \/ /\ Len(aops) < MaxAOps
       /\ \E m \in Modalities : QuickAddToCart(1, m)
    \/ /\ Len(aops) < MaxAOps
       /\ \E m \in Modalities : AddToCartFromDetails(1, m)
    \/ \E a \in 1..Len(aops), r \in AuthResults : AuthCheck(a, r)
    \/ \E a \in 1..Len(aops), o \in PlainOutcomes : AServer(a, o)
    \/ \E a \in 1..Len(aops) : AReceive(a)
    \/ \E a \in 1..Len(aops) : ABackoffDone(a)
    \/ Len(lops) < MaxLOps /\ \E s \in LogoutScripts : ClickLogout(s)
    \/ \E l \in 1..Len(lops) : LServer(l, "ok")
    \/ \E l \in 1..Len(lops) : LReceive(l)
    \/ \E l \in 1..Len(lops), r \in AuthResults : LRefresh(l, r)
    \/ \E f \in 1..MaxFetches, res \in {"ok", "err"} : FetchServer(f, res)
    \/ \E f \in 1..MaxFetches : FetchReceive(f)

SpecAuthGate == Init /\ [][NextAuthGate]_vars

\* the steps the browser and the service take on their own: timers,
\* requests answered, responses handled, backoff waits, cart fetches
TerminateSteps ==
    \/ \E t \in 1..Len(qops) : TimerFire(t)
    \/ \E t \in 1..Len(qops), o \in PlainOutcomes : QServer(t, o)
    \/ \E t \in 1..Len(qops) : QReceive(t)
    \/ \E t \in 1..Len(qops) : QBackoffDone(t)
    \/ \E r \in 1..Len(rops), o \in PlainOutcomes : RServer(r, o)
    \/ \E r \in 1..Len(rops) : RReceive(r)
    \/ \E r \in 1..Len(rops) : RBackoffDone(r)
    \/ \E r \in 1..Len(rops) : RAnimDone(r)
    \/ \E a \in 1..Len(aops) :
          AuthReply(a, [ok |-> TRUE, authenticated |-> TRUE, token_valid |-> TRUE])
    \/ \E a \in 1..Len(aops), o \in PlainOutcomes : AServer(a, o)
    \/ \E a \in 1..Len(aops) : AReceive(a)
    \/ \E a \in 1..Len(aops) : ABackoffDone(a)
    \/ \E c \in 1..Len(cops), o \in PlainOutcomes : CServer(c, o)
    \/ \E c \in 1..Len(cops) : CReceive(c)
    \/ \E c \in 1..Len(cops) : CBackoffDone(c)
    \/ ServerAnswersView
    \/ \E f \in 1..MaxFetches : FetchReceive(f)

\* the retry-wrapped operations, one after the other, every attempt of which
\* eventually returns or throws
NextTerminate ==
    \/ /\ TotalOps < MaxFailureOps
       /\ Quiet
       /\ \/ ClickQty(1, "inc")
          \/ ClickRemove(1)
          \/ QuickAddToCart(1, "DELIVERY")
          \/ ClickClearCart
          \/ \E scope \in {"REMOTE", "LOCAL_ONLY"} : ConfirmClear(scope)
    \/ TerminateSteps

SpecTerminate ==
    InitOpened /\ [][NextTerminate]_vars /\ WF_vars(TerminateSteps)

\* authentication started from the auth section and polled
NextPoll ==
    \/ AuthenticateWithKroger
    \/ \E res \in {"url", "fail"} : AuthStartReply(res)
    \/ PollTimer
    \/ \E r \in {"authenticated", "unauthenticated", "throw"} : PollReply(r)

SpecPoll == Init /\ [][NextPoll]_vars

Next ==
    NextQty \/ NextMod \/ NextRemove \/ NextRender \/ NextAdd \/ NextClear
    \/ NextReconcile \/ NextImport \/ NextMixed \/ NextResolve \/ NextLogout \/ NextRace \/ NextOverlap \/ NextAuthGate \/ NextTerminate \/ NextPoll

Spec == Init /\ [][Next]_vars

\* ------------------------------------------------------------ properties
RetryOps ==
    {qops[i] : i \in 1..Len(qops)} \cup {rops[i] : i \in 1..Len(rops)}
    \cup {cops[i] : i \in 1..Len(cops)}
    \cup {aops[i] : i \in {j \in 1..Len(aops) : aops[j].entry = "quick"}}

Fired(op) == op.pc \notin {"armed", "cancelled"}

BurstOps(b) == {i \in 1..Len(qops) : qops[i].burst = b}

Settled ==
    /\ \A f \in 1..MaxFetches : fetches[f] = NoFetch
    /\ \A i \in 1..Len(qops) : qops[i].pc \in {"done", "cancelled"}
    /\ \A i \in 1..Len(mops) : mops[i].pc = "done"
    /\ \A i \in 1..Len(rops) : rops[i].pc = "done" /\ rops[i].anim # "pending"
    /\ \A i \in 1..Len(cops) : cops[i].pc = "done"
    /\ \A i \in 1..Len(aops) : aops[i].pc = "done"
    /\ \A i \in 1..Len(iops) : iops[i].pc = "done"
    /\ \A i \in 1..Len(lops) : lops[i].pc = "done"

\* C1: in a burst of quantity clicks on one product, each click arriving
\* while the timer of the previous click is still pending, at most one
\* update-quantity call is issued, and once no timer of the burst is pending
\* exactly one was issued, by the last click, with the last quantity
C1_OneCallPerBurst ==
    \A b \in 1..Len(qops) :
        LET fired == {i \in BurstOps(b) : Fired(qops[i])}
        IN  /\ Cardinality(fired) <= 1
            /\ (BurstOps(b) # {} /\ \A i \in BurstOps(b) : qops[i].pc # "armed")
                  => /\ Cardinality(fired) = 1
                     /\ \A i \in fired : \A j \in BurstOps(b) : j <= i

\* C2: per product at most one debounce timer is armed, and a timer that
\* fires belongs to the most recent quantity intent for its product
C2_OneArmedTimerLatestFires ==
    /\ \A p \in ProductIds :
          Cardinality({i \in 1..Len(qops) : qops[i].pid = p /\ qops[i].pc = "armed"}) <= 1
    /\ \A i \in 1..Len(qops) : Fired(qops[i]) => qops[i].latest

\* C3: per product at most one debounced update-quantity call (its attempts
\* and backoff waits included) is unsettled at any time
C3_OneInFlightPerProduct ==
    \A p \in ProductIds :
        Cardinality({i \in 1..Len(qops) : qops[i].pid = p /\ InRetry(qops[i])}) <= 1

\* C4: every displayed quantity and every quantity sent by a debounced
\* update lies in [1, 99]
C4_QuantityClamped ==
    /\ \A i \in 1..Len(dom.items) : dom.items[i].qty \in MinQty..MaxQty
    /\ \A i \in 1..Len(qops) : Fired(qops[i]) => qops[i].qty \in MinQty..MaxQty

\* C5: when the network call of a modality change has failed for good, what
\* the panel shows of the item (icon, image, and the modality their click
\* handlers start from) is what it showed before the toggle
C5_FailedToggleRolledBack ==
    \A m \in 1..Len(mops) :
        (mops[m].pc = "done" /\ mops[m].res # "ok") => mops[m].post = mops[m].pre

\* C6: once nothing is pending, every modality shown for a cart item is the
\* modality the cart service holds for it
C6_SettledModalityMatchesServer ==
    Settled =>
        \A i \in 1..Len(dom.items) : \A which \in {"img", "icon"} :
            LET el == ElementAt(dom, <<i, which>>)
                k == IndexOf(serverCart, dom.items[i].pid)
            IN  el.face \in Modalities => (k # 0 /\ el.face = serverCart[k].mod)

\* C7: a debounced quantity update whose retries are exhausted shows one
\* error notice and re-fetches the cart; when that fetch succeeds the panel
\* shows the fetched snapshot, not the optimistic quantity
C7_FailedUpdateReconciles ==
    \A t \in 1..Len(qops) :
        qops[t].out = "thrown" =>
            /\ qops[t].toasts = <<"error">>
            /\ qops[t].pc \in {"refetch", "done"}
            /\ qops[t].pc = "refetch" =>
                  \E f \in 1..MaxFetches :
                      fetches[f].kind = "view" /\ fetches[f].owner = <<"q", t>>
            /\ qops[t].pc = "done" =>
                  /\ qops[t].refetch \in {"ok", "err"}
                  /\ qops[t].refetch = "ok" =>
                        /\ qops[t].reconciled
                        /\ qops[t].shownQty \in {0, qops[t].snapQty}

C7_Witness ==
    \E t \in 1..Len(qops) :
        /\ qops[t].pc = "done" /\ qops[t].out = "thrown"
        /\ qops[t].refetch = "ok" /\ qops[t].reconciled
        /\ qops[t].shownQty # 0
        /\ qops[t].shownQty = qops[t].snapQty
        /\ qops[t].snapQty # qops[t].qty

\* C8: a removal that failed all its attempts leaves the item listed with
\* enabled controls, shows an error notice, and the item it leaves listed is
\* still in the cart the service holds
C8_FailedRemoveLeavesNoGhost ==
    \A r \in 1..Len(rops) :
        rops[r].out = "thrown" =>
            /\ rops[r].toasts = <<"error">>
            /\ rops[r].visible /\ rops[r].usable
            /\ rops[r].inServer

\* C9: retryWithBackoff calls the action at most MaxRetries times, never
\* again after an attempt succeeded, and returns the result of that attempt
C9_RetryStopsAtFirstSuccess ==
    \A op \in RetryOps :
        /\ op.calls <= MaxRetries
        /\ Fired(op) => op.calls = op.attempt
        /\ op.okAt # 0 =>
              /\ op.calls = op.okAt
              /\ op.out = "returned"
              /\ op.ret = op.okAt

C9_Witness ==
    \E op \in RetryOps : op.pc = "done" /\ op.okAt = 2 /\ op.calls = 2

\* C10: retryWithBackoff completes normally only after a successful
\* attempt; when no attempt succeeds it throws the error of the last one
C10_RetryPropagatesFinalError ==
    \A op \in RetryOps :
        /\ op.out = "returned" => op.okAt # 0
        /\ op.out = "thrown" =>
              op.okAt = 0 /\ op.err = MaxRetries /\ op.err = op.calls
        /\ (op.calls = MaxRetries /\ op.okAt = 0 /\ op.pc \notin {"sent", "replied"})
              => op.out = "thrown"

C10_Witness ==
    \E op \in RetryOps :
        op.pc = "done" /\ op.out = "thrown" /\ op.err = MaxRetries /\ op.okAt = 0

\* C11: retryWithBackoff waits baseDelay * 2^(k-1) after failed attempt k and
\* before attempt k+1, does not wait before attempt 1 nor after the last
\* failed attempt, so a call that fails every attempt has waited no more than
\* baseDelay * (1 + 2 + 4) in total
C11_BackoffDelays ==
    \A op \in RetryOps :
        /\ \A k \in 1..Len(op.waits) : op.waits[k] = BaseDelay * 2^(k - 1)
        /\ op.pc \in {"sent", "replied"} => Len(op.waits) = op.attempt - 1
        /\ op.pc = "backoff" => Len(op.waits) = op.attempt
        /\ op.out = "thrown" => Len(op.waits) = MaxRetries - 1
        /\ op.out = "returned" => Len(op.waits) = op.okAt - 1
        /\ SumSeq(op.waits) <= BaseDelay * (1 + 2 + 4)

C11_Witness ==
    \E op \in RetryOps :
        /\ op.out = "thrown" /\ op.calls = MaxRetries
        /\ op.waits = <<BaseDelay, 2 * BaseDelay>>

\* the items of a snapshot whose modality passes filter f
Matching(data, f) ==
    LET Keep(it) == f \in {"NONE", "ALL"} \/ it.mod = f
    IN  SelectSeq(data, Keep)

PidsOf(items) == [i \in 1..Len(items) |-> items[i].pid]

\* C14: renderCart resets the stored filter to ALL, and lists every item,
\* exactly when the stored filter is PICKUP or DELIVERY, no item of the
\* snapshot has that modality and the snapshot is not empty; otherwise it
\* leaves the stored filter as it was and lists exactly the matching items
C14_FilterResetIffNoMatch ==
    lastRender.kind # "none" =>
        LET r == lastRender
            reset == /\ r.stored \in {"PICKUP", "DELIVERY"}
                     /\ \A i \in 1..Len(r.data) : r.data[i].mod # r.stored
                     /\ Len(r.data) > 0
        IN  /\ reset => (r.saved = "ALL" /\ r.shown = PidsOf(r.data))
            /\ ~reset => (r.saved = r.stored
                          /\ r.shown = PidsOf(Matching(r.data, r.stored)))
            /\ cartFilter = r.saved

C14_Witness ==
    /\ lastRender.kind = "items"
    /\ lastRender.stored = "PICKUP" /\ lastRender.saved = "ALL"
    /\ cartFilter = "ALL"
    /\ Len(lastRender.shown) = 2
    /\ dom.kind = "items" /\ Len(dom.items) = 2

\* C15: whenever the panel shows an empty view, the cart the service holds
\* has no items
C15_EmptyViewOnlyForEmptyCart ==
    dom.kind \in {"empty", "noMatch"} => serverCart = <<>>

\* C16: for the snapshot last rendered, item count, subtotal, savings and
\* total for filter ALL are the sums of those for PICKUP and for DELIVERY
C16_TotalsAdditive ==
    lastRender.kind # "none" =>
        LET all == CartTotals(lastRender.data, "ALL")
            pickup == CartTotals(lastRender.data, "PICKUP")
            delivery == CartTotals(lastRender.data, "DELIVERY")
        IN  /\ all.itemCount = pickup.itemCount + delivery.itemCount
            /\ all.subtotal = pickup.subtotal + delivery.subtotal
            /\ all.savings = pickup.savings + delivery.savings
            /\ all.total = pickup.total + delivery.total
            /\ lastRender.kind = "items" =>
                   lastRender.totals = CartTotals(lastRender.data, lastRender.filter)

C16_Witness ==
    /\ lastRender.kind = "items" /\ lastRender.filter = "ALL"
    /\ CartTotals(lastRender.data, "PICKUP").savings > 0
    /\ CartTotals(lastRender.data, "DELIVERY").subtotal > 0
    /\ lastRender.totals.itemCount = 2
    /\ lastRender.totals.subtotal =
           CartTotals(lastRender.data, "PICKUP").subtotal
           + CartTotals(lastRender.data, "DELIVERY").subtotal

C18_SaleScenarioTotal ==
    (/\ lastRender.kind = "items" /\ lastRender.filter = "ALL"
     /\ Len(lastRender.data) = 1
     /\ lastRender.data[1].qty = 2
     /\ lastRender.data[1].regular = 500 /\ lastRender.data[1].sale = 400
     /\ lastRender.data[1].onSale)
        => /\ lastRender.totals.subtotal = 800
           /\ lastRender.totals.savings = 200
           /\ lastRender.totals.total = 800

\* a retried mutation handled every refused attempt as a failed attempt:
\* a backoff wait after it, or the rethrow and one error notice after the last
RetriedUniformly(op) ==
    /\ \A k \in 1..Len(op.seen) :
          /\ op.seen[k] \in FailureKinds =>
                /\ k < MaxRetries => Len(op.waits) >= k
                /\ k = MaxRetries => op.out = "thrown"
          /\ op.seen[k] = "ok" => (k = Len(op.seen) /\ op.out = "returned")
    /\ (op.out = "thrown" /\ op.pc \in {"done", "refetch"})
          => op.toasts = <<"error">>

\* a mutation sent once handled the refusal as its failure: one error notice
SingleUniformly(op) ==
    /\ Len(op.seen) <= 1
    /\ \A k \in 1..Len(op.seen) :
          /\ op.seen[k] \in FailureKinds =>
                (op.out = "thrown" /\ op.pc = "done" /\ op.toasts = <<"error">>)
          /\ op.seen[k] = "ok" => op.out = "returned"

\* C12: for every cart mutation, an attempt answered with an HTTP error
\* status or with success = false is handled as an attempt whose fetch
\* failed: each counts as a failed attempt, is followed by the same backoff,
\* and on the last attempt ends in the same failure handling
C12_RefusalsHandledAsFailures ==
    /\ \A op \in RetryOps : RetriedUniformly(op)
    /\ \A a \in 1..Len(aops) : aops[a].entry # "quick" => SingleUniformly(aops[a])
    /\ \A m \in 1..Len(mops) :
          (mops[m].pc \notin {"sent", "replied"} /\ mops[m].res \in FailureKinds)
              => (mops[m].pc = "done" /\ mops[m].toasts = <<"error">>)

C12_Witness ==
    \E op \in RetryOps :
        /\ op.seen = <<"httpError", "notSuccess", "networkError">>
        /\ op.out = "thrown" /\ op.pc = "done" /\ op.toasts = <<"error">>
        /\ op.waits = <<BaseDelay, 2 * BaseDelay>>

\* the auth collaborator reported the user as authenticated to this add
ReportedAuthenticated(op) ==
    op.checked /\ op.auth.ok /\ (op.auth.authenticated \/ op.auth.token_valid)

\* C13: an add sends POST /cart/add only after the auth check reported the
\* user as authenticated; otherwise it sends nothing, does not retry, and
\* prompts the user to authenticate
C13_NoAddWithoutAuth ==
    \A a \in 1..Len(aops) :
        /\ aops[a].calls > 0 => ReportedAuthenticated(aops[a])
        /\ (aops[a].pc = "done" /\ ~ReportedAuthenticated(aops[a]) /\ aops[a].pid # 0)
              => (aops[a].calls = 0 /\ aops[a].prompted)

\* C19: a local-only clear posts to /cart/clear-local on every attempt, never
\* to /cart/clear, and the external cart is as it was
C19_LocalClearNeverPostsRemote ==
    /\ \A c \in 1..Len(cops) :
          cops[c].scope = "LOCAL_ONLY" =>
              /\ \A k \in 1..Len(cops[c].posts) :
                    cops[c].posts[k] = "/api/cart/clear-local"
              /\ ~cops[c].extChanged
    /\ (\A c \in 1..Len(cops) : cops[c].scope = "LOCAL_ONLY")
          => serverCart \in InitCarts

C19_Witness ==
    \E c \in 1..Len(cops) :
        /\ cops[c].scope = "LOCAL_ONLY"
        /\ cops[c].pc = "done" /\ cops[c].out = "returned"
        /\ cops[c].posts = <<"/api/cart/clear-local", "/api/cart/clear-local">>
        /\ serverCart # <<>>

\* C20: every POST /cart/clear belongs to a clear that the user confirmed
\* in the dialog; opening or closing the dialog sends nothing; when a remote
\* clear has succeeded and its re-fetch is over, the external cart is empty
\* and the panel lists no item
C20_RemoteClearNeedsConfirmation ==
    /\ \A c \in 1..Len(cops) :
          /\ cops[c].confirmed
          /\ (\E k \in 1..Len(cops[c].posts) : cops[c].posts[k] = "/api/cart/clear")
                => cops[c].scope = "REMOTE"
          /\ (cops[c].scope = "REMOTE" /\ cops[c].out = "returned") =>
                /\ serverCart = <<>>
                /\ cops[c].pc \in {"counting", "done"} =>
                      /\ cops[c].extAfter = 0
                      /\ cops[c].shownAfter = 0
                      /\ cops[c].refetch = "ok" => cops[c].viewKind = "empty"
    /\ cops = <<>> => serverCart \in InitCarts

C20_Witness ==
    \E c \in 1..Len(cops) :
        /\ cops[c].scope = "REMOTE" /\ cops[c].confirmed
        /\ cops[c].pc = "done" /\ cops[c].out = "returned"
        /\ cops[c].refetch = "ok" /\ cops[c].viewKind = "empty"
        /\ serverCart = <<>> /\ dom.kind = "empty"
        /\ ~clearModal

\* the panel lists exactly the items of snapshot data that pass filter f, in
\* snapshot order, each with the snapshot's quantity and modality, its
\* image and its controls as a fresh render writes them
ListsSnapshot(d, data, f) ==
    LET items == Matching(data, f)
    IN  /\ d.kind = (IF Len(items) > 0 THEN "items"
                     ELSE IF f \in {"NONE", "ALL"} THEN "empty" ELSE "noMatch")
        /\ Len(d.items) = Len(items)
        /\ \A i \in 1..Len(items) :
              /\ d.items[i].pid = items[i].pid
              /\ d.items[i].qty = items[i].qty
              /\ d.items[i].dec = Max(1, items[i].qty - 1)
              /\ d.items[i].inc = items[i].qty + 1
              /\ d.items[i].icon.face = items[i].mod
              /\ d.items[i].icon.arg = items[i].mod
              /\ d.items[i].img.face = "photo"
              /\ ~d.items[i].disabled

\* slot f holds a successful cart fetch whose response is handled in this step
ViewCartCompletes(f) ==
    /\ fetches[f].kind = "view"
    /\ fetches[f].pc = "replied"
    /\ fetches[f].res = "ok"
    /\ (fetches'[f].kind = "free" \/ fetches'[f].pc = "sent")

\* C21: when a successful cart fetch completes, the panel lists the items of
\* the snapshot it returned that pass the filter, with the snapshot's
\* quantities and modalities; no optimistic quantity, flipped icon or local
\* removal is left in it
C21_FetchReconcilesFully ==
    [][\A f \in 1..MaxFetches :
          ViewCartCompletes(f) => ListsSnapshot(dom', fetches[f].data, cartFilter')]_vars

\* a quantity click is still waiting for its timer while the reopened panel
\* shows the quantity of the fetched snapshot
C21_Witness ==
    /\ userViews > 1
    /\ lastRender.kind = "items"
    /\ ListsSnapshot(dom, lastRender.data, cartFilter)
    /\ \E t \in 1..Len(qops) :
          /\ qops[t].pc = "armed"
          /\ qops[t].qty # ShownQty(dom, qops[t].pid)
          /\ ShownQty(dom, qops[t].pid) = SnapQty(serverCart, qops[t].pid)

\* a line that is not blank and has at least the two parts id,quantity
HasIdAndQuantity(parts) == ~IsBlankLine(parts) /\ Len(parts) >= 2

\* a line that is not blank and has no comma
LacksComma(parts) == ~IsBlankLine(parts) /\ Len(parts) < 2

C23_QuantityAtLeastOne ==
    /\ \A i \in 1..Len(dom.items) : dom.items[i].qty >= 1
    /\ \A t \in 1..Len(qops) : qops[t].qty >= 1
    /\ \A i \in 1..Len(iops) :
          iops[i].posts > 0 =>
              \A k \in 1..Len(iops[i].items) : iops[i].items[k].quantity >= 1
    /\ \A k \in 1..Len(serverCart) : serverCart[k].qty >= 1

\* C24: every cart mutation that failed for good has shown an error notice
\* and has either put the panel back to what it showed before its optimistic
\* change or started a re-fetch of the cart
C24_NoFailureSilentlyDropped ==
    /\ \A t \in 1..Len(qops) :
          (qops[t].out = "thrown" /\ qops[t].pc \in {"refetch", "done"}) =>
              /\ "error" \in {qops[t].toasts[k] : k \in 1..Len(qops[t].toasts)}
              /\ (qops[t].pc = "refetch" \/ qops[t].refetch \in {"ok", "err"})
    /\ \A m \in 1..Len(mops) :
          (mops[m].pc = "done" /\ ResultFails(mops[m].res)) =>
              /\ "error" \in {mops[m].toasts[k] : k \in 1..Len(mops[m].toasts)}
              /\ mops[m].post = mops[m].pre
    /\ \A r \in 1..Len(rops) :
          (rops[r].out = "thrown" /\ rops[r].pc = "done") =>
              /\ "error" \in {rops[r].toasts[k] : k \in 1..Len(rops[r].toasts)}
              /\ rops[r].visible /\ rops[r].usable
    /\ \A a \in 1..Len(aops) :
          (aops[a].out = "thrown" /\ aops[a].pc = "done") =>
              "error" \in {aops[a].toasts[k] : k \in 1..Len(aops[a].toasts)}
    /\ \A c \in 1..Len(cops) :
          (cops[c].out = "thrown" /\ cops[c].pc = "done") =>
              "error" \in {cops[c].toasts[k] : k \in 1..Len(cops[c].toasts)}

\* product p has a quantity update armed or unsettled
PendingQuantity(p) ==
    \E t \in 1..Len(qops) :
        qops[t].pid = p /\ qops[t].pc \in {"armed", "sent", "replied", "backoff", "refetch"}

\* product p has a modality change whose request is unsettled
PendingModality(p) ==
    \E m \in 1..Len(mops) : mops[m].pid = p /\ mops[m].pc \in {"sent", "replied"}

\* product p has a removal whose request is unsettled
PendingRemoval(p) ==
    \E r \in 1..Len(rops) : rops[r].pid = p /\ InRetry(rops[r])

\* C25: no product has pending mutations of two different kinds at once; in
\* particular no quantity update is armed or in flight for a product whose
\* removal has been requested
C25_OnePendingKindPerItem ==
    \A p \in ProductIds :
        /\ ~(PendingQuantity(p) /\ PendingRemoval(p))
        /\ ~(PendingQuantity(p) /\ PendingModality(p))
        /\ ~(PendingModality(p) /\ PendingRemoval(p))
        /\ \A t \in 1..Len(qops) :
              (qops[t].pid = p /\ qops[t].pc \in {"sent", "replied"})
                  => ~\E r \in 1..Len(rops) : rops[r].pid = p

\* the timer reference of product p is set only while an update of p is
\* armed or unsettled
EntryHasPendingUpdate ==
    \A p \in ProductIds : quantityUpdateTimeouts[p] # 0 => PendingQuantity(p)

\* an update that is over ended with the success notice, or with the error
\* notice and the re-fetch of the cart
ResolvedBySuccessOrRollback ==
    \A t \in 1..Len(qops) :
        qops[t].pc = "done" =>
            \/ qops[t].toasts = <<"success">>
            \/ qops[t].toasts = <<"error">> /\ qops[t].refetch # "none"

\* C26: once clicks stop and every attempt returns or throws, the timer
\* reference of a product is eventually cleared, after the success or after
\* the rollback, and it is never set when no update of the product is armed
\* or in flight
C26_PendingEventuallyResolved ==
    /\ [](EntryHasPendingUpdate /\ ResolvedBySuccessOrRollback)
    /\ \A p \in ProductIds :
           (quantityUpdateTimeouts[p] # 0) ~> (quantityUpdateTimeouts[p] = 0)

C26_Witness ==
    \E t \in 1..Len(qops) :
        /\ qops[t].pc = "done"
        /\ qops[t].toasts = <<"error">>
        /\ qops[t].attempt = MaxRetries
        /\ quantityUpdateTimeouts[qops[t].pid] = 0

\* a logout whose success response is being handled in this step
LogoutSucceeds(l) ==
    lops[l].pc = "replied" /\ lops[l].res = "ok" /\ lops'[l].pc = "refresh"

\* C27: when a logout succeeds, with the cart panel open or closed, the
\* panel lists no items and the header count is 0
C27_LogoutDestroysSnapshot ==
    [][\A l \in 1..Len(lops) :
          LogoutSucceeds(l) => (dom'.kind # "items" /\ cartItemCount' = 0)]_vars

\* the quantity updates of product p that were sent
SentUpdates(p) ==
    {t \in 1..Len(qops) : qops[t].pid = p /\ qops[t].pc # "cancelled"}

\* every update of product p was sent and returned successfully, and nothing
\* is pending
SettledSuccessfully(p) ==
    /\ Settled
    /\ SentUpdates(p) # {}
    /\ \A t \in SentUpdates(p) : qops[t].out = "returned"

\* C28: once every operation for a product has settled successfully, the
\* quantity the service holds is the last one requested and the one the
\* panel shows for the product
C28_SettledQuantityIsLastRequested ==
    \A p \in ProductIds :
        SettledSuccessfully(p) =>
            /\ SnapQty(serverCart, p) = qops[LastIntent(p)].qty
            /\ ShownQty(dom, p) \in {0, SnapQty(serverCart, p)}

\* C29: one quickAddToCart click makes the service apply at most one
\* /cart/add request, also when an applied attempt was reported as an error
C29_QuickAddAppliedAtMostOnce ==
    \A a \in 1..Len(aops) : aops[a].entry = "quick" => aops[a].applied <= 1

\* no GET /api/cart/view is in flight
NoViewInFlight ==
    \A f \in DOMAIN fetches : fetches[f].kind # "view"

\* C30: when cart fetches overlapped and none is in flight any more, the
\* panel shows the response to the most recently issued fetch: neither a
\* late snapshot nor a late error of an earlier fetch has replaced it
C30_LatestFetchWins ==
    (NoViewInFlight /\ lastView # NoView) =>
        /\ lastView.res = lastView.wantRes
        /\ lastView.data = lastView.wantData

\* the auth gate of add a lets its POST /api/cart/add go out in this step
GateOpens(a) ==
    /\ aops[a].entry \in {"quick", "details"}
    /\ aops[a].pc = "auth"
    /\ aops'[a].pc = "sent"

\* C31: after a successful logout the auth gate of quickAddToCart and
\* addToCartFromDetails sends no POST /api/cart/add until a status check
\* has answered authenticated again
C31_NoAddAfterLogout ==
    [][\A a \in 1..Len(aops) : GateOpens(a) => ~authState'.loggedOut]_vars

\* the lines the panel lists: the items of the rendered snapshot that are
\* still listed, each with the quantity its qty-display shows
DisplayedLines ==
    [i \in 1..Len(dom.items) |->
        [lastRender.data[IndexOf(lastRender.data, dom.items[i].pid)]
            EXCEPT !.qty = dom.items[i].qty]]

\* the price summary in the panel: written by renderCart only
DisplayedSummary == lastRender.totals

\* C32: whenever no cart operation is pending and the panel lists items, the
\* price summary shows the item count, subtotal, savings and total of the
\* listed items at their displayed quantities
C32_SummaryMatchesDisplayedItems ==
    (Settled /\ dom.kind = "items") =>
        DisplayedSummary = CartTotals(DisplayedLines, "ALL")

\* a toggleItemModality call is made in this step
ToggleStarted == Len(mops') = Len(mops) + 1

\* item i of the panel after the step is item i before it with only its
\* fulfillment icon switched to the other modality
OnlyIconFlipped(i) ==
    /\ dom'.items[i].icon.face = OtherModality(dom.items[i].icon.face)
    /\ dom'.items[i].icon.pid = dom.items[i].icon.pid
    /\ dom'.items[i].icon.fn = "toggleItemModality"
    /\ [dom'.items[i] EXCEPT !.icon = dom.items[i].icon] = dom.items[i]

\* C33: the optimistic flip of toggleItemModality(productId, current)
\* switches the fulfillment icon of the item with that product id to the
\* other modality and changes nothing else: not the item's image, no other
\* item
C33_FlipChangesOnlyTheIcon ==
    [][ToggleStarted =>
          LET p == mops'[Len(mops')].pid IN
          /\ dom'.kind = dom.kind
          /\ Len(dom'.items) = Len(dom.items)
          /\ \A i \in 1..Len(dom.items) :
                IF dom.items[i].pid = p THEN OnlyIconFlipped(i)
                ELSE dom'.items[i] = dom.items[i]]_vars

\* retryWithBackoff was entered for the operation
Started(op) == op.calls >= 1

\* the one notice an operation that is over has shown: the success notice
\* after a returned call, the failure notice after a thrown one
OneTerminalNotice(op) ==
    /\ Len(op.toasts) = 1
    /\ op.out \in {"returned", "thrown"}
    /\ op.out = "returned" => op.toasts = <<"success">>
    /\ op.out = "thrown" => op.toasts = <<"error">>

\* some retry-wrapped operation was started and is not over
SomeOpRunning == \E op \in RetryOps : Started(op) /\ op.pc # "done"

\* C34: a started quick add, removal, fired quantity update, clear or local
\* clear eventually is over, and has then shown exactly one notice, success
\* or failure; it never shows more than one
C34_StartedOpsTerminateWithOneNotice ==
    /\ [](\A op \in RetryOps :
            /\ Len(op.toasts) <= 1
            /\ (Started(op) /\ op.pc = "done") => OneTerminalNotice(op))
    /\ SomeOpRunning ~> ~SomeOpRunning

C34_Witness ==
    /\ RetryOps # {}
    /\ \A op \in RetryOps : op.pc = "done" /\ Started(op)
    /\ \E op \in RetryOps : op.calls = 2 /\ op.toasts = <<"success">>

\* C35: polling makes at most MaxAttempts status checks, PollDelay apart,
\* and stops at the first one that reports authenticated; when it stops
\* without having seen authentication, after an unauthenticated or a thrown
\* last check, the authenticate button is enabled and a timeout is reported
C35_PollingStopsAndReenables ==
    /\ poll.attempts <= MaxAttempts
    /\ poll.pc = "waiting" => poll.delay = PollDelay
    /\ poll.sawAuth => poll.pc = "stopped"
    /\ (poll.pc = "stopped" /\ ~poll.sawAuth) =>
          (~poll.disabled /\ poll.notice = "timeout")

====
